---- MODULE Spec2Model ----
(***************************************************************************)
(* A model of the P2P file transfer client: the length-prefixed framing    *)
(* (pkg/util), the manifest codec, SendFile and ReceiveFile (pkg/transfer) *)
(* and the TCP challenge/response listener (pkg/netconn).                  *)
(*                                                                         *)
(* Streams, files and keys are sequences of bytes (0..255).  The library   *)
(* primitives (AES-GCM, RSA-OAEP, bcrypt, encoding/json) are modelled by   *)
(* what they do on the byte level, over the bounded inputs below.          *)
(***************************************************************************)
EXTENDS Integers, Sequences, FiniteSets, TLC

(***************************************************************************)
(* Bounds of the model.                                                    *)
(***************************************************************************)
\* Plaintext bytes per chunk.  The code reads 64*1024 - 28 bytes per chunk
\* (sender.go:110); the model keeps the loop and scales the buffer.
ChunkSize == 2
\* Longest file content the sender is given.
MaxFileLen == 4
\* Inbound TCP connections the listener accepts.
MaxConns == 2
\* Accept errors the listener meets.
MaxAcceptErrors == 1

(***************************************************************************)
(* Program constants.                                                      *)
(***************************************************************************)
\* gcm.NonceSize(): the AES-GCM standard nonce, 12 bytes.
NonceSize == 12
\* The GCM tag gcm.Seal appends, 16 bytes.
TagSize == 16
\* "64KB - 28 bytes for GCM overhead": receiver buffer = ChunkSize + 28.
GCMOverhead == 28
\* keys.GenerateRandomKey: 32 bytes.
SessionKeyLen == 32
\* generateNonce(15)
ChallengeLen == 15
\* manifest.FileMode of the files the model sends (0644).
FileModeBits == 420

Byte == 0..255

Min(a, b) == IF a < b THEN a ELSE b

\* The first n elements of s, and s without them.
Take(s, n) == SubSeq(s, 1, Min(n, Len(s)))
Drop(s, n) == SubSeq(s, n + 1, Len(s))

RECURSIVE Flatten(_)
Flatten(ss) == IF ss = << >> THEN << >> ELSE Head(ss) \o Flatten(Tail(ss))

(***************************************************************************)
(* encoding/binary, big endian, 32 bits.                                   *)
(***************************************************************************)
\* binary.Write(w, binary.BigEndian, uint32(n))
PutUint32(n) ==
    << (n \div 16777216) % 256, (n \div 65536) % 256, (n \div 256) % 256, n % 256 >>

\* binary.Read(r, binary.BigEndian, &u32) on four bytes.  The model's streams
\* carry lengths below 2^31 only (the top byte stays below 128).
Uint32(b) == ((b[1] * 256 + b[2]) * 256 + b[3]) * 256 + b[4]

(***************************************************************************)
(* pkg/util: length-prefixed framing.  A writer is the sequence of bytes   *)
(* written so far; a reader is a stream and a position (bytes consumed).   *)
(***************************************************************************)
\* LittleEndianFrame: a plausible slip, the length written low byte first.
SendWithLengthLE(w, data) ==
    w \o << Len(data) % 256, (Len(data) \div 256) % 256, 0, 0 >> \o data

SendWithLength(w, data) == w \o PutUint32(Len(data)) \o data

\* A reader that drops io.ReadFull's error: a body cut short comes back as
\* if it were whole.
ReadWithLengthUnchecked(stream, pos) ==
    IF pos + 4 > Len(stream)
    THEN [ok |-> FALSE, data |-> << >>, pos |-> Len(stream), alloc |-> 0]
    ELSE LET length == Uint32(SubSeq(stream, pos + 1, pos + 4))
         IN  [ok |-> TRUE,
              data |-> SubSeq(stream, pos + 5, Min(pos + 4 + length, Len(stream))),
              pos |-> Min(pos + 4 + length, Len(stream)), alloc |-> length]

\* A reader's result: ok, the bytes read, the new position, and the size of
\* the buffer it made (buf := make([]byte, length)).
ReadWithLength(stream, pos) ==
    IF pos + 4 > Len(stream)
    THEN [ok |-> FALSE, data |-> << >>, pos |-> Len(stream), alloc |-> 0]
    ELSE LET length == Uint32(SubSeq(stream, pos + 1, pos + 4))
         IN  IF pos + 4 + length > Len(stream)
             THEN [ok |-> FALSE, data |-> << >>, pos |-> Len(stream), alloc |-> length]
             ELSE [ok |-> TRUE,
                   data |-> SubSeq(stream, pos + 5, pos + 4 + length),
                   pos |-> pos + 4 + length, alloc |-> length]

(***************************************************************************)
(* AES-256-GCM (crypto/cipher), as an ideal AEAD on bytes: the body is the *)
(* plaintext under a keystream of key, nonce and position; the tag is a    *)
(* function of key, nonce and ciphertext body that differs whenever any of *)
(* them differs (injective on the model's bounded chunks).                 *)
(***************************************************************************)
KeyStream(key, nonce, i) ==
    (key[1] + 3 * nonce[NonceSize] + 5 * nonce[NonceSize - 1] + nonce[1] + i) % 256

GcmBody(key, nonce, text, sign) ==
    [i \in 1..Len(text) |-> (text[i] + sign * KeyStream(key, nonce, i)) % 256]

\* 16 bytes: key, nonce prefix digest, the 4 counter bytes, length, body.
GcmTag(key, nonce, body) ==
    << (key[1] + 7) % 256,
       (nonce[1] + 2 * nonce[2] + 3 * nonce[8]) % 256 >>
    \o SubSeq(nonce, NonceSize - 3, NonceSize)
    \o << Len(body) % 256 >>
    \o [i \in 1..(TagSize - 7) |-> IF i <= Len(body) THEN (body[i] + 13 * i) % 256 ELSE 0]

\* gcm.Seal(nil, nonce, plaintext, nil)
GcmSeal(key, nonce, plaintext) ==
    LET body == GcmBody(key, nonce, plaintext, 1)
    IN  body \o GcmTag(key, nonce, body)

\* Whether the tag at the end of ciphertext is the tag of its body
TagVerifies(key, nonce, ciphertext) ==
    /\ Len(ciphertext) >= TagSize
    /\ SubSeq(ciphertext, Len(ciphertext) - TagSize + 1, Len(ciphertext))
         = GcmTag(key, nonce, SubSeq(ciphertext, 1, Len(ciphertext) - TagSize))

\* What the body of ciphertext decrypts to
Decrypted(key, nonce, ciphertext) ==
    GcmBody(key, nonce, SubSeq(ciphertext, 1, Len(ciphertext) - TagSize), -1)

\* A decryption that never compares the tag (the keystream alone).
GcmOpenUnauthenticated(key, nonce, ciphertext) ==
    IF Len(ciphertext) < TagSize
    THEN [ok |-> FALSE, pt |-> << >>]
    ELSE [ok |-> TRUE, pt |-> Decrypted(key, nonce, ciphertext)]

\* gcm.Open(nil, nonce, ciphertext, nil): the plaintext, or nil and the error
\* "cipher: message authentication failed"
GcmOpen(key, nonce, ciphertext) ==
    IF TagVerifies(key, nonce, ciphertext)
    THEN [ok |-> TRUE, pt |-> Decrypted(key, nonce, ciphertext)]
    ELSE [ok |-> FALSE, pt |-> << >>]

(***************************************************************************)
(* The per-chunk nonce: the base nonce with its last 4 bytes replaced by   *)
(* the big-endian chunk counter.                                           *)
(***************************************************************************)
\* The earlier revision's scheme: every chunk sealed under the base nonce.
DeriveNonceConst(nonce, counter) == nonce

\* binary.BigEndian.PutUint32(chunkNonce[len(chunkNonce)-4:], counter); the
\* counter is kept as its four big-endian bytes.
DeriveNonce(nonce, counter) == SubSeq(nonce, 1, Len(nonce) - 4) \o counter

\* A loop that forgets counter++.
NextCounterStuck(counter) == counter

\* A loop that counts a chunk twice, once for its length and once for its body.
NextCounterTwice(counter) ==
    IF counter[4] < 254 THEN << counter[1], counter[2], counter[3], counter[4] + 2 >>
    ELSE << counter[1], counter[2], (counter[3] + 1) % 256, counter[4] - 254 >>

\* counter++ on a uint32, kept as its four big-endian bytes so that the
\* wrap from 0xFFFFFFFF to 0 is the code's.
NextCounter(counter) ==
    IF counter[4] < 255 THEN << counter[1], counter[2], counter[3], counter[4] + 1 >>
    ELSE IF counter[3] < 255 THEN << counter[1], counter[2], counter[3] + 1, 0 >>
    ELSE IF counter[2] < 255 THEN << counter[1], counter[2] + 1, 0, 0 >>
    ELSE << (counter[1] + 1) % 256, 0, 0, 0 >>

(***************************************************************************)
(* encoding/json on the Manifest struct.  json.Marshal writes the fields   *)
(* in declaration order, omits the empty hash, escapes the quote, the      *)
(* backslash, control characters and <, >, &, and coerces a string to      *)
(* valid UTF-8: a byte that starts no valid sequence is written as the     *)
(* escape of U+FFFD.  The model decodes one- and two-byte sequences; its     *)
(* file names hold no three- or four-byte sequence.                        *)
(***************************************************************************)
HexDigit(v) == IF v < 10 THEN 48 + v ELSE 87 + v

HexVal(c) ==
    IF c >= 48 /\ c <= 57 THEN c - 48
    ELSE IF c >= 97 /\ c <= 102 THEN c - 87
    ELSE IF c >= 65 /\ c <= 70 THEN c - 55
    ELSE -1

\* \uXXXX of a code point below 65536
UEscape(cp) ==
    << 92, 117, HexDigit(cp \div 4096), HexDigit((cp \div 256) % 16),
       HexDigit((cp \div 16) % 16), HexDigit(cp % 16) >>

\* utf8.AppendRune for a code point of the basic plane
UTF8Encode(cp) ==
    IF cp < 128 THEN << cp >>
    ELSE IF cp < 2048 THEN << 192 + (cp \div 64), 128 + (cp % 64) >>
    ELSE << 224 + (cp \div 4096), 128 + ((cp \div 64) % 64), 128 + (cp % 64) >>

\* The replacement rune U+FFFD
RuneError == 65533

RECURSIVE EscapeString(_)
EscapeString(s) ==
    IF s = << >> THEN << >>
    ELSE LET b == Head(s)
         IN  IF b = 34 \/ b = 92 THEN << 92, b >> \o EscapeString(Tail(s))
             ELSE IF b = 10 THEN << 92, 110 >> \o EscapeString(Tail(s))
             ELSE IF b = 13 THEN << 92, 114 >> \o EscapeString(Tail(s))
             ELSE IF b = 9 THEN << 92, 116 >> \o EscapeString(Tail(s))
             ELSE IF b = 8 THEN << 92, 98 >> \o EscapeString(Tail(s))
             ELSE IF b = 12 THEN << 92, 102 >> \o EscapeString(Tail(s))
             ELSE IF b < 32 \/ b = 60 \/ b = 62 \/ b = 38
                  THEN UEscape(b) \o EscapeString(Tail(s))
             ELSE IF b < 128 THEN << b >> \o EscapeString(Tail(s))
             ELSE IF b >= 194 /\ b <= 223 /\ Len(s) >= 2 /\ s[2] >= 128 /\ s[2] <= 191
                  THEN << b, s[2] >> \o EscapeString(Tail(Tail(s)))
             ELSE UEscape(RuneError) \o EscapeString(Tail(s))

\* A quoted JSON string
Quote(s) == << 34 >> \o EscapeString(s) \o << 34 >>

\* The decoder's unquote, from the opening quote at pos + 1: ok, the string,
\* the position after the closing quote.
RECURSIVE UnquoteFrom(_, _, _)
UnquoteFrom(data, pos, acc) ==
    IF pos + 1 > Len(data) THEN [ok |-> FALSE, val |-> << >>, pos |-> pos]
    ELSE LET c == data[pos + 1]
         IN  IF c = 34 THEN [ok |-> TRUE, val |-> acc, pos |-> pos + 1]
             ELSE IF c < 32 THEN [ok |-> FALSE, val |-> << >>, pos |-> pos]
             ELSE IF c = 92
                  THEN IF pos + 2 > Len(data)
                       THEN [ok |-> FALSE, val |-> << >>, pos |-> pos]
                       ELSE LET e == data[pos + 2]
                            IN  IF e = 34 \/ e = 92 \/ e = 47
                                THEN UnquoteFrom(data, pos + 2, Append(acc, e))
                                ELSE IF e = 110 THEN UnquoteFrom(data, pos + 2, Append(acc, 10))
                                ELSE IF e = 114 THEN UnquoteFrom(data, pos + 2, Append(acc, 13))
                                ELSE IF e = 116 THEN UnquoteFrom(data, pos + 2, Append(acc, 9))
                                ELSE IF e = 98 THEN UnquoteFrom(data, pos + 2, Append(acc, 8))
                                ELSE IF e = 102 THEN UnquoteFrom(data, pos + 2, Append(acc, 12))
                                ELSE IF e = 117 /\ pos + 6 <= Len(data)
                                        /\ \A k \in 3..6 : HexVal(data[pos + k]) >= 0
                                THEN UnquoteFrom(data, pos + 6,
                                         acc \o UTF8Encode(
                                             HexVal(data[pos + 3]) * 4096
                                             + HexVal(data[pos + 4]) * 256
                                             + HexVal(data[pos + 5]) * 16
                                             + HexVal(data[pos + 6])))
                                ELSE [ok |-> FALSE, val |-> << >>, pos |-> pos]
             ELSE IF c < 128 THEN UnquoteFrom(data, pos + 1, Append(acc, c))
             ELSE IF c >= 194 /\ c <= 223 /\ pos + 2 <= Len(data)
                     /\ data[pos + 2] >= 128 /\ data[pos + 2] <= 191
                  THEN UnquoteFrom(data, pos + 2, acc \o << c, data[pos + 2] >>)
             ELSE UnquoteFrom(data, pos + 1, acc \o UTF8Encode(RuneError))

Unquote(data, pos) ==
    IF pos + 1 <= Len(data) /\ data[pos + 1] = 34
    THEN UnquoteFrom(data, pos + 1, << >>)
    ELSE [ok |-> FALSE, val |-> << >>, pos |-> pos]

\* strconv: a non-negative int64 in decimal
RECURSIVE Itoa(_)
Itoa(n) == IF n < 10 THEN << 48 + n >> ELSE Itoa(n \div 10) \o << 48 + (n % 10) >>

FormatInt(n) == IF n < 0 THEN << 45 >> \o Itoa(0 - n) ELSE Itoa(n)

RECURSIVE DigitsFrom(_, _, _, _)
DigitsFrom(data, pos, acc, seen) ==
    IF pos + 1 <= Len(data) /\ data[pos + 1] >= 48 /\ data[pos + 1] <= 57
    THEN DigitsFrom(data, pos + 1, acc * 10 + (data[pos + 1] - 48), TRUE)
    ELSE [ok |-> seen, val |-> acc, pos |-> pos]

\* A JSON integer at pos: ok, the value, the position after it.
ParseInt(data, pos) ==
    IF pos + 1 <= Len(data) /\ data[pos + 1] = 45
    THEN LET r == DigitsFrom(data, pos + 1, 0, FALSE)
         IN  [ok |-> r.ok, val |-> 0 - r.val, pos |-> r.pos]
    ELSE DigitsFrom(data, pos, 0, FALSE)

\* Whether lit stands at pos
Expect(data, pos, lit) ==
    pos + Len(lit) <= Len(data) /\ SubSeq(data, pos + 1, pos + Len(lit)) = lit

KeyFileName == << 123, 34, 102, 105, 108, 101, 95, 110, 97, 109, 101, 34, 58 >>
KeyFileSize == << 44, 34, 102, 105, 108, 101, 95, 115, 105, 122, 101, 34, 58 >>
KeyFileMode == << 44, 34, 102, 105, 108, 101, 95, 109, 111, 100, 101, 34, 58 >>
KeyLastModTime ==
    << 44, 34, 108, 97, 115, 116, 95, 109, 111, 100, 95, 116, 105, 109, 101, 34, 58 >>
CloseBrace == << 125 >>

\* time.Time's JSON text of the files' modification time: 2024-01-01T00:00:00Z
ModTimeText ==
    << 50, 48, 50, 52, 45, 48, 49, 45, 48, 49, 84, 48, 48, 58, 48, 48, 58, 48, 48, 90 >>

\* SerializeManifest: json.Marshal(m)
SerializeManifest(m) ==
    KeyFileName \o Quote(m.FileName)
    \o KeyFileSize \o FormatInt(m.FileSize)
    \o KeyFileMode \o FormatInt(m.FileMode)
    \o KeyLastModTime \o Quote(m.LastModTime)
    \o CloseBrace

NoManifest == [FileName |-> << >>, FileSize |-> 0, FileMode |-> 0, LastModTime |-> << >>]

\* DeserializeManifest: json.Unmarshal(data, &m), on the object layout that
\* json.Marshal writes (json.Unmarshal also takes other layouts of the same
\* object; the streams of the model carry none).
DeserializeManifest(data) ==
    LET bad  == [ok |-> FALSE, m |-> NoManifest]
        name == Unquote(data, Len(KeyFileName))
        size == ParseInt(data, name.pos + Len(KeyFileSize))
        mode == ParseInt(data, size.pos + Len(KeyFileMode))
        time == Unquote(data, mode.pos + Len(KeyLastModTime))
    IN  IF ~Expect(data, 0, KeyFileName) \/ ~name.ok THEN bad
        ELSE IF ~Expect(data, name.pos, KeyFileSize) \/ ~size.ok THEN bad
        ELSE IF ~Expect(data, size.pos, KeyFileMode) \/ ~mode.ok THEN bad
        ELSE IF ~Expect(data, mode.pos, KeyLastModTime) \/ ~time.ok THEN bad
        ELSE IF ~Expect(data, time.pos, CloseBrace) \/ time.pos + 1 # Len(data) THEN bad
        ELSE [ok |-> TRUE,
              m |-> [FileName |-> name.val, FileSize |-> size.val,
                     FileMode |-> mode.val, LastModTime |-> time.val]]

\* CreateManifest: os.Stat of the file (info.Name(), info.Size(), ...)
CreateManifest(file) ==
    [FileName |-> file.name, FileSize |-> Len(file.data),
     FileMode |-> FileModeBits, LastModTime |-> ModTimeText]

(***************************************************************************)
(* pkg/keys and crypto/rsa.  A keypair is its identity; the PKCS#1 DER of  *)
(* a public key is the SEQUENCE tag and the identity; RSA-OAEP is ideal:   *)
(* only the private half of the key a message was wrapped to unwraps it.   *)
(***************************************************************************)
KeyIds == {1, 2}

\* x509.MarshalPKCS1PublicKey
MarshalPKCS1PublicKey(pub) == << 48, pub >>

\* x509.MarshalPKCS1PrivateKey: the private half of keypair priv, which no
\* public key determines
MarshalPKCS1PrivateKey(priv) == << 48, priv, 255 - priv, 2 >>

\* A parse that takes whatever it is given for a key.
ParsePKCS1PublicKeyLenient(der) ==
    [ok |-> TRUE, pub |-> IF Len(der) = 2 /\ der[2] \in KeyIds THEN der[2] ELSE 2]

\* x509.ParsePKCS1PublicKey
ParsePKCS1PublicKey(der) ==
    IF Len(der) = 2 /\ der[1] = 48 /\ der[2] \in KeyIds
    THEN [ok |-> TRUE, pub |-> der[2]]
    ELSE [ok |-> FALSE, pub |-> 0]

\* rsa.EncryptOAEP(sha256.New(), rand.Reader, pub, msg, nil)
EncryptOAEP(pub, msg) ==
    << pub >> \o [i \in 1..Len(msg) |-> (msg[i] + 11 * pub) % 256]

\* An unwrap whose error nobody looks at: whatever comes out is the key.
DecryptOAEPUnchecked(priv, ciphertext) ==
    [ok |-> TRUE,
     msg |-> [i \in 1..(Len(ciphertext) - 1) |->
                 (ciphertext[i + 1] + 256 - ((11 * priv) % 256)) % 256]]

\* rsa.DecryptOAEP(sha256.New(), rand.Reader, priv, ciphertext, nil)
DecryptOAEP(priv, ciphertext) ==
    IF Len(ciphertext) >= 1 /\ ciphertext[1] = priv
    THEN [ok |-> TRUE,
          msg |-> [i \in 1..(Len(ciphertext) - 1) |->
                      (ciphertext[i + 1] + 256 - ((11 * priv) % 256)) % 256]]
    ELSE [ok |-> FALSE, msg |-> << >>]

\* aes.NewCipher accepts keys of 16, 24 or 32 bytes
ValidAESKey(key) == Len(key) \in {16, 24, SessionKeyLen}

(***************************************************************************)
(* The inputs of a run.                                                    *)
(***************************************************************************)
RECURSIVE SeqsUpTo(_, _)
SeqsUpTo(S, n) ==
    IF n = 0 THEN {<< >>}
    ELSE LET shorter == SeqsUpTo(S, n - 1)
         IN  shorter \cup {Append(q, x) : q \in shorter, x \in S}

\* File names: "a", a name with a quote in it, and a name that is no UTF-8
\* (the byte 0xFF), which a Unix directory may hold.
PlainName == << 97 >>
Names == {PlainName, << 34, 97 >>, << 255 >>}

Contents == SeqsUpTo({0, 1}, MaxFileLen)

\* Every content under the plain name, every name with one content.
Files ==
    {[name |-> PlainName, data |-> d] : d \in Contents}
    \cup {[name |-> n, data |-> << 1 >>] : n \in Names}

\* What crypto/rand hands out in a run: the session key and the base nonce.
RandomTapes ==
    {[key |-> [i \in 1..SessionKeyLen |-> 17], nonce |-> [i \in 1..NonceSize |-> i]],
     [key |-> [i \in 1..SessionKeyLen |-> 200], nonce |-> [i \in 1..NonceSize |-> 255 - i]]}

\* The node's own keypairs
SenderKey == 1
ReceiverKey == 2

\* A run's inputs: every file and tape sent to the receiver's key, and one
\* file sent to a key that is not the receiver's.
Inputs ==
    {[file |-> f, pub |-> ReceiverKey, tape |-> t] : f \in Files, t \in RandomTapes}
    \cup {[file |-> f, pub |-> SenderKey, tape |-> t] :
              f \in {[name |-> PlainName, data |-> << 1 >>]}, t \in RandomTapes}

\* outputDir, "out"
OutputDir == << 111, 117, 116 >>

\* outputPath := outputDir + "/" + manifest.FileName
OutputPath(name) == OutputDir \o << 47 >> \o name

\* The position of the last '/' of path, 0 when it has none
RECURSIVE LastSlash(_, _)
LastSlash(path, i) ==
    IF i = 0 THEN 0 ELSE IF path[i] = 47 THEN i ELSE LastSlash(path, i - 1)

\* The directories there are once os.MkdirAll(outputDir) is done: outputDir
\* and, through "..", the directory it lies in
ExistingDirs == {OutputDir, OutputDir \o << 47, 46, 46 >>}

\* Whether os.Create(path) can make the file: its directory is there and
\* its last element names a file
Creatable(path) ==
    LET s == LastSlash(path, Len(path))
    IN  /\ s > 1
        /\ Take(path, s - 1) \in ExistingDirs
        /\ Drop(path, s) \notin {<< >>, << 46 >>, << 46, 46 >>}

\* A receive buffer sized for the plaintext of a chunk alone.
BufferSizePlain == ChunkSize

\* buffer := make([]byte, 64*1024): the sender's chunk plus the GCM overhead
BufferSize == ChunkSize + GCMOverhead

ZeroCounter == << 0, 0, 0, 0 >>

\* A send that forgets the end-of-file marker.
EOFMarkerMissing == << >>

\* binary.Write(conn, binary.BigEndian, uint32(0))
EOFMarker == PutUint32(0)

VARIABLES
    \* SendFile
    sfile,      \* the file at filePath: name and content
    rcvPub,     \* receiverPubKey, the key the caller passed
    tape,       \* what crypto/rand hands out
    spc,        \* SendFile's position
    wire,       \* the bytes written to conn
    scounter,   \* counter
    soff,       \* the file's read offset
    emitted,    \* history: per emitted chunk, its nonce, ciphertext and place
    \* the connection
    rstream,    \* the bytes that reach the receiver
    tamper,     \* history: what happened to them on the way
    \* ReceiveFile
    rpc,        \* ReceiveFile's position
    rpos,       \* bytes consumed from conn
    rmanifest, rkey, rnonce, rcounter,
    rchunk,     \* buffer[:chunkLen] of the chunk at hand
    rplain,     \* plaintext of the chunk at hand
    rerr,       \* the error returned
    disk,       \* the output file: exists, path, content
    verified,   \* history: the plaintexts of the chunks whose tag verified
    lastLen,    \* history: the last chunk length read (-1: none)
    fault,      \* history: a local failure (disk, key store) happened
    \* the TCP listener
    conns,      \* per accepted connection, its handler's state
    \* the WebRTC data channel (pkg/netconn): both goroutines and the
    \* bytes from the receiver to the sender
    rtc,
    \* the key store (pkg/keys): the working directory's two key files and
    \* the tasks calling into the package
    keystore,
    \* util.RetryWithBackoff: its locals and the history of its calls
    retry,
    \* util.SendWithLength / util.ReadWithLength on one stream
    framing,
    \* main: the orchestrator's position, its two services, errCh and ctx
    orch,
    \* StartTCPServer's accept loop
    ln

tvars == << sfile, rcvPub, tape, spc, wire, scounter, soff, emitted, rstream, tamper,
            rpc, rpos, rmanifest, rkey, rnonce, rcounter, rchunk, rplain, rerr,
            disk, verified, lastLen, fault >>
\* The variables of the orchestrator and of the accept loop
nvars == << orch, ln >>
xvars == << rtc, keystore, retry, framing, nvars >>
vars == << tvars, conns, xvars >>

svars == << sfile, rcvPub, tape, spc, wire, scounter, soff, emitted >>
rvars == << rpc, rpos, rmanifest, rkey, rnonce, rcounter, rchunk, rplain, rerr,
            disk, verified, lastLen, fault >>

NoFile == [exists |-> FALSE, path |-> << >>, data |-> << >>]

\* A component that does not run in the specification at hand
Off == [pc |-> "off"]

\* ln, err := net.Listen("tcp", ...) has succeeded and the loop has seen
\* no Accept error yet
Listening == [pc |-> "listening", acceptErrors |-> 0]

TransferInit ==
    /\ \E in \in Inputs : sfile = in.file /\ rcvPub = in.pub /\ tape = in.tape
    /\ spc = "manifest"
    /\ wire = << >>
    /\ scounter = ZeroCounter
    /\ soff = 0
    /\ emitted = << >>
    /\ rstream = << >>
    /\ tamper = [kind |-> "none", at |-> 0, from |-> 0]
    /\ rpc = "idle"
    /\ rpos = 0
    /\ rmanifest = NoManifest
    /\ rkey = << >>
    /\ rnonce = << >>
    /\ rcounter = ZeroCounter
    /\ rchunk = << >>
    /\ rplain = << >>
    /\ rerr = "none"
    /\ disk = NoFile
    /\ verified = << >>
    /\ lastLen = -1
    /\ fault = FALSE

(***************************************************************************)
(* SendFile (pkg/transfer/sender.go).  Every write to conn may fail; a     *)
(* failed write leaves nothing of its bytes on the wire.                   *)
(***************************************************************************)
\* A sender that closes the stream with the terminator on its way out.
SendFailsTerminated ==
    /\ spc' = "err"
    /\ wire' = wire \o EOFMarker
    /\ UNCHANGED << scounter, soff, emitted >>

SendFails == /\ spc' = "err"
             /\ UNCHANGED << wire, scounter, soff, emitted >>

\* CreateManifest, SerializeManifest, GenerateRandomKey, send the manifest
SendManifest ==
    /\ spc = "manifest"
    /\ \E w \in BOOLEAN :
          IF w THEN /\ wire' = SendWithLength(wire, SerializeManifest(CreateManifest(sfile)))
                    /\ spc' = "pubkey"
                    /\ UNCHANGED << scounter, soff, emitted >>
               ELSE SendFails
    /\ UNCHANGED << sfile, rcvPub, tape, rstream, tamper, rvars, conns, xvars >>

\* keys.LoadPublicKey, send the sender's public key
SendSenderKey ==
    /\ spc = "pubkey"
    /\ \E w \in BOOLEAN :
          IF w THEN /\ wire' = SendWithLength(wire, MarshalPKCS1PublicKey(SenderKey))
                    /\ spc' = "enckey"
                    /\ UNCHANGED << scounter, soff, emitted >>
               ELSE SendFails
    /\ UNCHANGED << sfile, rcvPub, tape, rstream, tamper, rvars, conns, xvars >>


\* The earlier revision of SendFile: the session key goes out as it is.
SendSessionKeyPlain ==
    /\ spc = "enckey"
    /\ \E w \in BOOLEAN :
          IF w THEN /\ wire' = wire \o tape.key
                    /\ spc' = "nonce"
                    /\ UNCHANGED << scounter, soff, emitted >>
               ELSE SendFails
    /\ UNCHANGED << sfile, rcvPub, tape, rstream, tamper, rvars, conns, xvars >>

\* rsa.EncryptOAEP of the session key, send it
SendSessionKey ==
    /\ spc = "enckey"
    /\ \E w \in BOOLEAN :
          IF w THEN /\ wire' = SendWithLength(wire, EncryptOAEP(rcvPub, tape.key))
                    /\ spc' = "nonce"
                    /\ UNCHANGED << scounter, soff, emitted >>
               ELSE SendFails
    /\ UNCHANGED << sfile, rcvPub, tape, rstream, tamper, rvars, conns, xvars >>

\* os.Open, aes.NewCipher, cipher.NewGCM, the random base nonce, send it
SendNonce ==
    /\ spc = "nonce"
    /\ \E w \in BOOLEAN :
          IF w THEN /\ wire' = SendWithLength(wire, tape.nonce)
                    /\ spc' = "loop"
                    /\ scounter' = ZeroCounter
                    /\ soff' = 0
                    /\ UNCHANGED emitted
               ELSE SendFails
    /\ UNCHANGED << sfile, rcvPub, tape, rstream, tamper, rvars, conns, xvars >>

\* One turn of the loop: file.Read, seal, send the length, send the chunk,
\* counter++; io.EOF leaves the loop.
SendChunk ==
    /\ spc = "loop"
    /\ LET n          == Min(ChunkSize, Len(sfile.data) - soff)
           chunkNonce == DeriveNonce(tape.nonce, scounter)
           ciphertext == GcmSeal(tape.key, chunkNonce, SubSeq(sfile.data, soff + 1, soff + n))
       IN  IF n = 0
           THEN /\ spc' = "eof"
                /\ UNCHANGED << wire, scounter, soff, emitted >>
           ELSE \E w \in {"ok", "length", "chunk", "read"} :
                  CASE w = "ok" ->
                         /\ wire' = wire \o PutUint32(Len(ciphertext)) \o ciphertext
                         /\ emitted' = Append(emitted,
                                [nonce |-> chunkNonce, ct |-> ciphertext,
                                 off |-> Len(wire) + 4, counter |-> scounter,
                                 pt |-> SubSeq(sfile.data, soff + 1, soff + n)])
                         /\ scounter' = NextCounter(scounter)
                         /\ soff' = soff + n
                         /\ spc' = "loop"
                    [] w = "chunk" ->
                         /\ wire' = wire \o PutUint32(Len(ciphertext))
                         /\ spc' = "err"
                         /\ UNCHANGED << scounter, soff, emitted >>
                    [] OTHER -> SendFails
    /\ UNCHANGED << sfile, rcvPub, tape, rstream, tamper, rvars, conns, xvars >>

\* The zero-length chunk that ends the stream
SendEOF ==
    /\ spc = "eof"
    /\ \E w \in BOOLEAN :
          IF w THEN /\ wire' = wire \o EOFMarker
                    /\ spc' = "done"
                    /\ UNCHANGED << scounter, soff, emitted >>
               ELSE SendFails
    /\ UNCHANGED << sfile, rcvPub, tape, rstream, tamper, rvars, conns, xvars >>

SendFile == SendManifest \/ SendSenderKey \/ SendSessionKey \/ SendNonce
            \/ SendChunk \/ SendEOF

(***************************************************************************)
(* The connection between the two: it delivers what was written, cut short *)
(* where the sender failed, or cut, or with one bit of a chunk flipped, or *)
(* with one chunk replaced by another chunk of the same transfer; or the   *)
(* peer is no SendFile and frames what it likes.                           *)
(***************************************************************************)
FlipBit(b, mask) == IF (b \div mask) % 2 = 0 THEN b + mask ELSE b - mask

Sent == spc \in {"done", "err"} /\ rpc = "idle"

DeliverIntact ==
    /\ Sent
    /\ rstream' = wire
    /\ tamper' = [kind |-> "none", at |-> 0, from |-> 0]
    /\ rpc' = "manifest"
    /\ UNCHANGED << svars, rpos, rmanifest, rkey, rnonce, rcounter, rchunk, rplain, rerr,
                    disk, verified, lastLen, fault, conns, xvars >>

DeliverTruncated ==
    /\ Sent /\ spc = "done"
    /\ \E k \in 0..(Len(wire) - 1) :
          /\ rstream' = Take(wire, k)
          /\ tamper' = [kind |-> "truncated", at |-> k, from |-> 0]
    /\ rpc' = "manifest"
    /\ UNCHANGED << svars, rpos, rmanifest, rkey, rnonce, rcounter, rchunk, rplain, rerr,
                    disk, verified, lastLen, fault, conns, xvars >>

DeliverFlipped ==
    /\ Sent /\ spc = "done"
    /\ \E i \in 1..Len(emitted) : \E j \in 1..Len(emitted[i].ct) : \E mask \in {1, 128} :
          /\ rstream' = [wire EXCEPT ![emitted[i].off + j] = FlipBit(@, mask)]
          /\ tamper' = [kind |-> "flipped", at |-> i, from |-> 0]
    /\ rpc' = "manifest"
    /\ UNCHANGED << svars, rpos, rmanifest, rkey, rnonce, rcounter, rchunk, rplain, rerr,
                    disk, verified, lastLen, fault, conns, xvars >>

DeliverReplayed ==
    /\ Sent /\ spc = "done"
    /\ \E i \in 1..Len(emitted) : \E j \in 1..Len(emitted) :
          /\ i # j
          /\ rstream' = Take(wire, emitted[i].off - 4)
                        \o PutUint32(Len(emitted[j].ct)) \o emitted[j].ct
                        \o Drop(wire, emitted[i].off + Len(emitted[i].ct))
          /\ tamper' = [kind |-> "replayed", at |-> i, from |-> j]
    /\ rpc' = "manifest"
    /\ UNCHANGED << svars, rpos, rmanifest, rkey, rnonce, rcounter, rchunk, rplain, rerr,
                    disk, verified, lastLen, fault, conns, xvars >>

\* What a peer may put in a manifest of its own making: no name, a name
\* that leaves the output directory, a name in a directory below it, a
\* negative size
HostileManifests ==
    {[CreateManifest(sfile) EXCEPT !.FileName = n] :
        n \in {<< >>, << 46, 46, 47, 97 >>, << 97, 47, 98 >>}}
    \cup {[CreateManifest(sfile) EXCEPT !.FileSize = 0 - 1]}

\* Where the handshake frames end on the wire
HandshakeEnd == IF emitted = << >> THEN Len(wire) - 4 ELSE emitted[1].off - 4

\* A peer that sends a manifest of its own making, the rest as SendFile
DeliverForgedManifest ==
    /\ Sent /\ spc = "done"
    /\ \E hm \in HostileManifests :
          rstream' = SendWithLength(<< >>, SerializeManifest(hm))
                     \o Drop(wire, 4 + Len(SerializeManifest(CreateManifest(sfile))))
    /\ tamper' = [kind |-> "manifest", at |-> 0, from |-> 0]
    /\ rpc' = "manifest"
    /\ UNCHANGED << svars, rpos, rmanifest, rkey, rnonce, rcounter, rchunk, rplain, rerr,
                    disk, verified, lastLen, fault, conns, xvars >>

\* A peer that announces a first chunk longer than the receiver's buffer,
\* and sends it and the terminator or hangs up after the length
DeliverOversizedChunk ==
    /\ Sent /\ spc = "done"
    /\ \E hangsUp \in BOOLEAN :
          rstream' = Take(wire, HandshakeEnd) \o PutUint32(BufferSize + 1)
                     \o (IF hangsUp THEN << >>
                         ELSE [i \in 1..(BufferSize + 1) |-> 0] \o PutUint32(0))
    /\ tamper' = [kind |-> "oversized", at |-> 1, from |-> 0]
    /\ rpc' = "manifest"
    /\ UNCHANGED << svars, rpos, rmanifest, rkey, rnonce, rcounter, rchunk, rplain, rerr,
                    disk, verified, lastLen, fault, conns, xvars >>

\* A peer that announces a first frame of 16 MiB and one byte and sends the
\* manifest's bytes after it
DeliverHugeFrame ==
    /\ Sent /\ spc = "done"
    /\ rstream' = PutUint32(16 * 1024 * 1024 + 1)
                  \o SerializeManifest(CreateManifest(sfile))
    /\ tamper' = [kind |-> "hugeframe", at |-> 0, from |-> 0]
    /\ rpc' = "manifest"
    /\ UNCHANGED << svars, rpos, rmanifest, rkey, rnonce, rcounter, rchunk, rplain, rerr,
                    disk, verified, lastLen, fault, conns, xvars >>

\* A peer that sends, after the handshake of its file, one chunk that seals
\* no plaintext and then the terminator
DeliverEmptyChunk ==
    /\ Sent /\ spc = "done"
    /\ LET ct == GcmSeal(tape.key, DeriveNonce(tape.nonce, ZeroCounter), << >>)
       IN  rstream' = Take(wire, HandshakeEnd) \o PutUint32(Len(ct)) \o ct
                      \o PutUint32(0)
    /\ tamper' = [kind |-> "emptychunk", at |-> 1, from |-> 0]
    /\ rpc' = "manifest"
    /\ UNCHANGED << svars, rpos, rmanifest, rkey, rnonce, rcounter, rchunk, rplain, rerr,
                    disk, verified, lastLen, fault, conns, xvars >>

Deliver == DeliverIntact \/ DeliverTruncated \/ DeliverFlipped \/ DeliverReplayed
           \/ DeliverForgedManifest \/ DeliverOversizedChunk \/ DeliverHugeFrame

(***************************************************************************)
(* ReceiveFile (pkg/transfer/receiver.go, the encrypted revision).  The    *)
(* local failures (output directory, key store, os.Create, file.Write,     *)
(* os.Remove) are choices of the environment.                              *)
(***************************************************************************)
\* return fmt.Errorf(...)
Return(e) == rpc' = "err" /\ rerr' = e

\* binary.Read(conn, binary.BigEndian, &chunkLen) that takes the end of the
\* stream for the end of the file.
ReadChunkLenEOFIsEnd(stream, pos) ==
    IF pos + 4 > Len(stream)
    THEN [ok |-> TRUE, len |-> 0, pos |-> Len(stream)]
    ELSE [ok |-> TRUE, len |-> Uint32(SubSeq(stream, pos + 1, pos + 4)), pos |-> pos + 4]

\* binary.Read(conn, binary.BigEndian, &chunkLen)
ReadChunkLen(stream, pos) ==
    IF pos + 4 > Len(stream)
    THEN [ok |-> FALSE, len |-> 0, pos |-> Len(stream)]
    ELSE [ok |-> TRUE, len |-> Uint32(SubSeq(stream, pos + 1, pos + 4)), pos |-> pos + 4]

\* A receiver that does not look at gcm.Open's error.
DecryptFailedIgnored(res) == FALSE

\* if err != nil after gcm.Open
DecryptFailed(res) == ~res.ok

\* os.MkdirAll, read and parse the manifest
ReadManifest ==
    /\ rpc = "manifest"
    /\ \E env \in BOOLEAN :
         LET r == ReadWithLength(rstream, rpos)
             m == DeserializeManifest(r.data)
         IN  /\ fault' = ~env
             /\ IF ~env THEN Return("failed to create output directory") /\ UNCHANGED << rpos, rmanifest >>
                ELSE IF ~r.ok THEN Return("failed to read manifest") /\ UNCHANGED << rpos, rmanifest >>
                ELSE IF ~m.ok THEN Return("failed to parse manifest") /\ UNCHANGED << rpos, rmanifest >>
                ELSE /\ rmanifest' = m.m
                     /\ rpos' = r.pos
                     /\ rpc' = "senderkey"
                     /\ UNCHANGED rerr
    /\ UNCHANGED << svars, rstream, tamper, rkey, rnonce, rcounter, rchunk, rplain,
                    disk, verified, lastLen, conns, xvars >>

\* Read and parse the sender's public key
ReadSenderKey ==
    /\ rpc = "senderkey"
    /\ LET r == ReadWithLength(rstream, rpos)
       IN  IF ~r.ok THEN Return("failed to read sender public key") /\ UNCHANGED rpos
           ELSE IF ~ParsePKCS1PublicKey(r.data).ok
                THEN Return("failed to parse sender public key") /\ UNCHANGED rpos
           ELSE rpos' = r.pos /\ rpc' = "sessionkey" /\ UNCHANGED rerr
    /\ UNCHANGED << svars, rstream, tamper, rmanifest, rkey, rnonce, rcounter, rchunk,
                    rplain, disk, verified, lastLen, fault, conns, xvars >>

\* Read the wrapped session key, keys.LoadPrivateKey, rsa.DecryptOAEP,
\* aes.NewCipher, cipher.NewGCM
ReadSessionKey ==
    /\ rpc = "sessionkey"
    /\ \E env \in BOOLEAN :
         LET r == ReadWithLength(rstream, rpos)
             k == DecryptOAEP(ReceiverKey, r.data)
         IN  IF ~r.ok
             THEN Return("failed to read encrypted file key") /\ UNCHANGED << rpos, rkey, fault >>
             ELSE IF ~env
             THEN Return("failed to load private key") /\ fault' = TRUE /\ UNCHANGED << rpos, rkey >>
             ELSE IF ~k.ok
             THEN Return("failed to decrypt file key") /\ UNCHANGED << rpos, rkey, fault >>
             ELSE IF ~ValidAESKey(k.msg)
             THEN Return("failed to create cipher") /\ UNCHANGED << rpos, rkey, fault >>
             ELSE /\ rkey' = k.msg
                  /\ rpos' = r.pos
                  /\ rpc' = "nonce"
                  /\ UNCHANGED << rerr, fault >>
    /\ UNCHANGED << svars, rstream, tamper, rmanifest, rnonce, rcounter, rchunk, rplain,
                    disk, verified, lastLen, conns, xvars >>

\* Read the base nonce and check its size
ReadNonce ==
    /\ rpc = "nonce"
    /\ LET r == ReadWithLength(rstream, rpos)
       IN  IF ~r.ok THEN Return("failed to read nonce") /\ UNCHANGED << rpos, rnonce >>
           ELSE IF Len(r.data) # NonceSize
                THEN Return("invalid nonce size") /\ UNCHANGED << rpos, rnonce >>
           ELSE rnonce' = r.data /\ rpos' = r.pos /\ rpc' = "create" /\ UNCHANGED rerr
    /\ UNCHANGED << svars, rstream, tamper, rmanifest, rkey, rcounter, rchunk, rplain,
                    disk, verified, lastLen, fault, conns, xvars >>

\* os.Create(outputPath); counter = 0
CreateOutput ==
    /\ rpc = "create"
    /\ \E env \in BOOLEAN :
         IF ~env \/ ~Creatable(OutputPath(rmanifest.FileName))
         THEN Return("failed to create output file") /\ fault' = (fault \/ ~env)
              /\ UNCHANGED << disk, rcounter >>
         ELSE /\ disk' = [exists |-> TRUE, path |-> OutputPath(rmanifest.FileName),
                          data |-> << >>]
              /\ rcounter' = ZeroCounter
              /\ rpc' = "chunklen"
              /\ UNCHANGED << rerr, fault >>
    /\ UNCHANGED << svars, rstream, tamper, rpos, rmanifest, rkey, rnonce, rchunk, rplain,
                    verified, lastLen, conns, xvars >>

\* Read the chunk length; zero ends the loop and ReceiveFile returns nil
ReadChunkLength ==
    /\ rpc = "chunklen"
    /\ LET r == ReadChunkLen(rstream, rpos)
       IN  IF ~r.ok
           THEN Return("failed to read chunk length") /\ UNCHANGED << rpos, lastLen >>
           ELSE /\ rpos' = r.pos
                /\ lastLen' = r.len
                /\ rpc' = IF r.len = 0 THEN "ok" ELSE "body"
                /\ UNCHANGED rerr
    /\ UNCHANGED << svars, rstream, tamper, rmanifest, rkey, rnonce, rcounter, rchunk,
                    rplain, disk, verified, fault, conns, xvars >>

\* io.ReadFull(conn, buffer[:chunkLen]); on an error os.Remove(outputPath)
ReadChunkBody ==
    /\ rpc = "body"
    /\ \E env \in BOOLEAN :
         IF lastLen > BufferSize
         THEN \* buffer[:chunkLen]: slice bounds out of range
              /\ rpc' = "panic"
              /\ UNCHANGED << rpos, rchunk, rerr, disk, fault >>
         ELSE IF rpos + lastLen > Len(rstream)
         THEN /\ rpos' = Len(rstream)
              /\ IF env
                 THEN Return("deleting file, failed to read chunk")
                      /\ disk' = NoFile /\ UNCHANGED fault
                 ELSE Return("deleting file failed")
                      /\ fault' = TRUE /\ UNCHANGED disk
              /\ UNCHANGED rchunk
         ELSE /\ env
              /\ rchunk' = SubSeq(rstream, rpos + 1, rpos + lastLen)
              /\ rpos' = rpos + lastLen
              /\ rpc' = "decrypt"
              /\ UNCHANGED << rerr, disk, fault >>
    /\ UNCHANGED << svars, rstream, tamper, rmanifest, rkey, rnonce, rcounter, rplain,
                    verified, lastLen, conns, xvars >>

\* Derive the chunk's nonce and gcm.Open
DecryptChunk ==
    /\ rpc = "decrypt"
    /\ LET res == GcmOpen(rkey, DeriveNonce(rnonce, rcounter), rchunk)
           nonce == DeriveNonce(rnonce, rcounter)
       IN  /\ verified' = IF TagVerifies(rkey, nonce, rchunk)
                           THEN Append(verified, Decrypted(rkey, nonce, rchunk))
                           ELSE verified
           /\ IF DecryptFailed(res)
              THEN Return("decryption failed") /\ UNCHANGED rplain
              ELSE rplain' = res.pt /\ rpc' = "write" /\ UNCHANGED rerr
    /\ UNCHANGED << svars, rstream, tamper, rpos, rmanifest, rkey, rnonce, rcounter,
                    rchunk, disk, lastLen, fault, conns, xvars >>

\* What int(x) makes of a NaN: the largest negative integer on amd64, zero
\* on arm64
Builds == {"amd64", "arm64"}

\* progressBar(percent, 20) for percent = float64(totalReceived) /
\* float64(manifest.FileSize) * 100: the number of '=' it repeats, and
\* whether strings.Repeat takes that count. 0/0 is a NaN, which passes both
\* clamps; a positive total over a zero size is +Inf and is clamped to 100.
progressBar(totalReceived, fileSize, build) ==
    LET width == 20
        completed ==
            IF totalReceived = 0 /\ fileSize = 0
            THEN (IF build = "amd64" THEN 0 - 1 ELSE 0)
            ELSE IF fileSize = 0 THEN width
            ELSE IF fileSize < 0 THEN 0
            ELSE Min(width, (width * totalReceived) \div fileSize)
    IN  [ok |-> completed >= 0, completed |-> completed]

\* file.Write(plaintext); totalReceived += len(plaintext); the progress
\* sample when more than 100 ms have passed since the last one; counter++
WriteChunk ==
    /\ rpc = "write"
    /\ \E env \in BOOLEAN, sample \in BOOLEAN, build \in Builds :
         IF ~env
         THEN Return("failed to write to file") /\ fault' = TRUE
              /\ UNCHANGED << disk, rcounter >>
         ELSE /\ disk' = [disk EXCEPT !.data = @ \o rplain]
              /\ IF sample /\ ~progressBar(Len(disk.data) + Len(rplain),
                                           rmanifest.FileSize, build).ok
                 THEN \* strings.Repeat: negative Repeat count
                      rpc' = "panic" /\ UNCHANGED rcounter
                 ELSE rcounter' = NextCounter(rcounter) /\ rpc' = "chunklen"
              /\ UNCHANGED << rerr, fault >>
    /\ UNCHANGED << svars, rstream, tamper, rpos, rmanifest, rkey, rnonce, rchunk, rplain,
                    verified, lastLen, conns, xvars >>

ReceiveFile == ReadManifest \/ ReadSenderKey \/ ReadSessionKey \/ ReadNonce
               \/ CreateOutput \/ ReadChunkLength \/ ReadChunkBody \/ DecryptChunk
               \/ WriteChunk

TransferNext == SendFile \/ Deliver \/ ReceiveFile

\* One transfer: SendFile on one node, the connection, ReceiveFile on the other
Init ==
    /\ TransferInit
    /\ conns = << >>
    /\ rtc = Off /\ keystore = Off /\ retry = Off /\ framing = Off
    /\ orch = Off /\ ln = Listening

Spec == Init /\ [][TransferNext]_vars

\* One transfer whose sending peer may also be one that seals empty chunks
ProgressNext == TransferNext \/ DeliverEmptyChunk

SpecProgress == Init /\ [][ProgressNext]_vars

(***************************************************************************)
(* The TCP listener: StartTCPServer accepts connections and runs one       *)
(* handleConnection per connection, each in a goroutine of its own.  The   *)
(* peer at the other end runs ConnectTCP, or writes what it likes.         *)
(***************************************************************************)

\* const passcode = "hello123"
passcode == << 104, 101, 108, 108, 111, 49, 50, 51 >>

\* What a user who does not know the passcode types
WrongPasscode == << 120 >>

Newline == << 10 >>
Success == << 83, 85, 67, 67, 69, 83, 83 >> \o Newline
Fail == << 70, 65, 73, 76 >> \o Newline

\* hex.EncodeToString
RECURSIVE EncodeToString(_)
EncodeToString(bytes) ==
    IF bytes = << >> THEN << >>
    ELSE << HexDigit(Head(bytes) \div 16), HexDigit(Head(bytes) % 16) >>
         \o EncodeToString(Tail(bytes))

\* What crypto/rand hands generateNonce: `length` bytes, or a failure
NonceTapes(length) == {[i \in 1..length |-> b] : b \in {26, 43}}

\* generateNonce(length): the hex text of `length` random bytes, "" when
\* rand.Read fails
generateNonce(length) ==
    {EncodeToString(bytes) : bytes \in NonceTapes(length)} \cup {<< >>}

\* strings.TrimSpace
IsSpace(c) == c \in {9, 10, 11, 12, 13, 32}

RECURSIVE TrimLeft(_)
TrimLeft(s) == IF s # << >> /\ IsSpace(Head(s)) THEN TrimLeft(Tail(s)) ELSE s

RECURSIVE TrimRight(_)
TrimRight(s) ==
    IF s # << >> /\ IsSpace(s[Len(s)]) THEN TrimRight(SubSeq(s, 1, Len(s) - 1)) ELSE s

TrimSpace(s) == TrimRight(TrimLeft(s))

\* bufio.Reader.ReadString('\n') on bytes that have arrived: the number of
\* bytes through the first newline, 0 when there is none yet
RECURSIVE LineEnd(_, _)
LineEnd(s, i) ==
    IF i > Len(s) THEN 0 ELSE IF s[i] = 10 THEN i ELSE LineEnd(s, i + 1)

\* bcrypt.GenerateFromPassword: a salted hash that only the password it was
\* made from matches; '$' opens the text
GenerateFromPassword(password, salt) == << 36, salt >> \o password

\* A comparison that looks at the passcode and not at the nonce after it.
CompareIgnoringNonce(hash, password) ==
    /\ Len(hash) >= 2
    /\ hash[1] = 36
    /\ Take(Drop(hash, 2), 8) = Take(password, 8)

\* bcrypt.CompareHashAndPassword(hash, password) = nil
CompareHashAndPassword(hash, password) ==
    /\ Len(hash) >= 2
    /\ hash[1] = 36
    /\ Drop(hash, 2) = password

Salts == {46}

\* The handler's state right after Accept.  held and ended are history: whether
\* a connection was admitted, and how many had ended, when this one came.
\* client, cresult and cret are the peer's side when it runs ConnectTCP.
NewConn(held, ended) ==
    [pc |-> "challenge", nonce |-> << >>, out |-> << >>, inp |-> << >>,
     eof |-> FALSE, clientHash |-> << >>, nread |-> 0, held |-> held,
     ended |-> ended, replied |-> FALSE,
     client |-> FALSE, cresult |-> << >>, cret |-> "none"]

ConnIds == DOMAIN conns

\* The connections whose peer has been authenticated and that are still open
Admitted == {c \in ConnIds : conns[c].pc = "admitted"}

\* The connections whose handler has returned
Ended == {c \in ConnIds : conns[c].pc = "closed"}

\* for { conn, err := ln.Accept(); ...; go handleConnection(conn) }
Accept ==
    /\ ln.pc = "listening"
    /\ Len(conns) < MaxConns
    /\ conns' = Append(conns, NewConn(Admitted # {}, Cardinality(Ended)))
    /\ UNCHANGED << tvars, xvars >>

\* A loop that gives up on the first Accept error.
AcceptErrorReturns ==
    /\ ln.pc = "listening"
    /\ ln.acceptErrors < MaxAcceptErrors
    /\ ln' = [ln EXCEPT !.pc = "stopped", !.acceptErrors = @ + 1]
    /\ UNCHANGED << tvars, conns, rtc, keystore, retry, framing, orch >>

\* conn, err := ln.Accept(); if err != nil { fmt.Println(...); continue }
AcceptError ==
    /\ ln.pc = "listening"
    /\ ln.acceptErrors < MaxAcceptErrors
    /\ ln' = [ln EXCEPT !.acceptErrors = @ + 1]
    /\ UNCHANGED << tvars, conns, rtc, keystore, retry, framing, orch >>

\* nonce, _ := generateNonce(15); conn.Write([]byte(nonce + "\n"))
WriteChallenge(c) ==
    /\ c \in ConnIds
    /\ conns[c].pc = "challenge"
    /\ \E nonce \in generateNonce(ChallengeLen) :
          conns' = [conns EXCEPT ![c].nonce = nonce,
                                 ![c].out = @ \o nonce \o Newline,
                                 ![c].pc = "read"]
    /\ UNCHANGED << tvars, xvars >>

\* clientHash, _ := bufio.NewReader(conn).ReadString('\n');
\* clientHash = strings.TrimSpace(clientHash)
ReadClientHash(c) ==
    /\ c \in ConnIds
    /\ conns[c].pc = "read"
    /\ LET n == LineEnd(conns[c].inp, 1)
       IN  \/ /\ n > 0
              /\ conns' = [conns EXCEPT ![c].clientHash = TrimSpace(Take(conns[c].inp, n)),
                                        ![c].nread = @ + n,
                                        ![c].inp = Drop(@, n),
                                        ![c].pc = "compare"]
           \/ /\ n = 0 /\ conns[c].eof
              /\ conns' = [conns EXCEPT ![c].clientHash = TrimSpace(conns[c].inp),
                                        ![c].nread = @ + Len(conns[c].inp),
                                        ![c].inp = << >>,
                                        ![c].pc = "compare"]
    /\ UNCHANGED << tvars, xvars >>

\* A handler that takes err != nil for success.
CompareAndReplyInverted(c) ==
    /\ c \in ConnIds
    /\ conns[c].pc = "compare"
    /\ IF ~CompareHashAndPassword(conns[c].clientHash, passcode \o conns[c].nonce)
       THEN conns' = [conns EXCEPT ![c].out = @ \o Success, ![c].pc = "admitted"]
       ELSE conns' = [conns EXCEPT ![c].out = @ \o Fail, ![c].pc = "refused"]
    /\ UNCHANGED << tvars, xvars >>

\* A handler behind a flag that an earlier handler took and never gave back.
CompareAndReplyStuck(c) ==
    /\ c \in ConnIds
    /\ conns[c].pc = "compare"
    /\ IF /\ CompareHashAndPassword(conns[c].clientHash, passcode \o conns[c].nonce)
          /\ \A d \in ConnIds \ {c} : conns[d].pc \notin {"refused", "closed"}
       THEN conns' = [conns EXCEPT ![c].out = @ \o Success, ![c].pc = "admitted"]
       ELSE conns' = [conns EXCEPT ![c].out = @ \o Fail, ![c].pc = "refused"]
    /\ UNCHANGED << tvars, xvars >>

\* err := bcrypt.CompareHashAndPassword(clientHash, passcode+nonce);
\* "SUCCESS\n" when nil, "FAIL\n" otherwise
CompareAndReply(c) ==
    /\ c \in ConnIds
    /\ conns[c].pc = "compare"
    /\ IF CompareHashAndPassword(conns[c].clientHash, passcode \o conns[c].nonce)
       THEN conns' = [conns EXCEPT ![c].out = @ \o Success, ![c].pc = "admitted"]
       ELSE conns' = [conns EXCEPT ![c].out = @ \o Fail, ![c].pc = "refused"]
    /\ UNCHANGED << tvars, xvars >>

\* defer conn.Close()
CloseConn(c) ==
    /\ c \in ConnIds
    /\ conns[c].pc \in {"admitted", "refused"}
    /\ conns' = [conns EXCEPT ![c].pc = "closed"]
    /\ UNCHANGED << tvars, xvars >>

handleConnection(c) ==
    WriteChallenge(c) \/ ReadClientHash(c) \/ CompareAndReply(c) \/ CloseConn(c)

\* The peer runs ConnectTCP: it reads the nonce line, hashes what its user
\* typed followed by the nonce, and writes the hash line
ConnectTCP(c) ==
    /\ c \in ConnIds
    /\ conns[c].pc = "read" /\ ~conns[c].replied /\ ~conns[c].eof
    /\ LET n == LineEnd(conns[c].out, 1)
           nonce == TrimSpace(Take(conns[c].out, n))
       IN  /\ n > 0
           /\ \E inputPass \in {passcode, WrongPasscode}, salt \in Salts :
                 conns' = [conns EXCEPT
                     ![c].inp = @ \o GenerateFromPassword(inputPass \o nonce, salt)
                                  \o Newline,
                     ![c].replied = TRUE,
                     ![c].client = TRUE]
    /\ UNCHANGED << tvars, xvars >>

\* ConnectTCP, step 4: it reads the status line, prints it and returns nil
ConnectTCPResult(c) ==
    /\ c \in ConnIds
    /\ conns[c].client /\ conns[c].cret = "none"
    /\ LET rest == Drop(conns[c].out, LineEnd(conns[c].out, 1))
           n    == LineEnd(rest, 1)
       IN  /\ n > 0 \/ conns[c].pc = "closed"
           /\ conns' = [conns EXCEPT
                 ![c].cresult = TrimSpace(IF n > 0 THEN Take(rest, n) ELSE rest),
                 ![c].cret = "nil"]
    /\ UNCHANGED << tvars, xvars >>

\* A peer that writes the hash line it saw on another connection
PeerReplays(c) ==
    /\ c \in ConnIds
    /\ conns[c].pc = "read" /\ ~conns[c].replied /\ ~conns[c].eof
    /\ \E d \in ConnIds \ {c} :
          /\ conns[d].clientHash # << >>
          /\ conns' = [conns EXCEPT ![c].inp = @ \o conns[d].clientHash \o Newline,
                                    ![c].replied = TRUE]
    /\ UNCHANGED << tvars, xvars >>

\* A peer that hangs up without a reply
PeerHangsUp(c) ==
    /\ c \in ConnIds
    /\ conns[c].pc = "read" /\ ~conns[c].replied /\ ~conns[c].eof
    /\ conns' = [conns EXCEPT ![c].eof = TRUE]
    /\ UNCHANGED << tvars, xvars >>

Peer(c) == ConnectTCP(c) \/ ConnectTCPResult(c) \/ PeerReplays(c) \/ PeerHangsUp(c)

StartTCPServer == Accept \/ AcceptError \/ \E c \in 1..MaxConns : handleConnection(c)

TCPNext == StartTCPServer \/ \E c \in 1..MaxConns : Peer(c)

\* The transfer variables at rest while the listener runs
TCPInit ==
    /\ Init
    /\ sfile = [name |-> PlainName, data |-> << >>]
    /\ rcvPub = ReceiverKey
    /\ tape.key[1] = 17

\* One node's listener and the peers that connect to it
SpecTCP == TCPInit /\ [][TCPNext]_vars

(***************************************************************************)
(* SendFile late in the transfer of a very large file: the loop after      *)
(* 2^32 - 2 or 2^32 - 1 chunks.  sfile.data is what is left of the file    *)
(* from the read offset on, wire and emitted what is written from here on. *)
(***************************************************************************)
LateCounters == {<< 255, 255, 255, 254 >>, << 255, 255, 255, 255 >>}

LateInit ==
    /\ \E d \in Contents : sfile = [name |-> PlainName, data |-> d]
    /\ rcvPub = ReceiverKey
    /\ tape \in RandomTapes
    /\ spc = "loop"
    /\ wire = << >>
    /\ scounter \in LateCounters
    /\ soff = 0
    /\ emitted = << >>
    /\ rstream = << >>
    /\ tamper = [kind |-> "none", at |-> 0, from |-> 0]
    /\ rpc = "idle"
    /\ rpos = 0
    /\ rmanifest = NoManifest
    /\ rkey = << >>
    /\ rnonce = << >>
    /\ rcounter = ZeroCounter
    /\ rchunk = << >>
    /\ rplain = << >>
    /\ rerr = "none"
    /\ disk = NoFile
    /\ verified = << >>
    /\ lastLen = 0 - 1
    /\ fault = FALSE
    /\ conns = << >>
    /\ rtc = Off /\ keystore = Off /\ retry = Off /\ framing = Off
    /\ orch = Off /\ ln = Listening

LateNext == SendChunk \/ SendEOF

SpecLate == LateInit /\ [][LateNext]_vars

(***************************************************************************)
(* The WebRTC data channel (pkg/netconn/tcp.go, StartWebRTCSender and      *)
(* StartWebRTCReceiver).  Each side runs a goroutine on the detached       *)
(* channel and waits for it on a channel "done" under a 30 minute          *)
(* deadline; returning closes the peer connection.  rtc holds              *)
(*   rx, tx     the positions of the receiver's and the sender's goroutine *)
(*   back       the bytes written from the receiver to the sender          *)
(*   rpubBytes  what the sender read of them                               *)
(*   sdone, rdone   what each goroutine put on its "done"                  *)
(*   sret, rret     what StartWebRTCSender / StartWebRTCReceiver returned  *)
(***************************************************************************)
NotYet == "none"

DeadlineExceeded == "context deadline exceeded"

\* Keys a peer that is no StartWebRTCReceiver may frame: no key at all, and
\* a structure that is no PKCS#1 key
ForeignKeys == {<< >>, << 48, 9 >>}

\* done := make(chan error, 1)
DoneCapacity == 1

\* done := make(chan error): a channel without a buffer.
DoneHasRoomUnbuffered(sends) == FALSE

\* Whether done takes one more value without a receiver: nothing is
\* received from it before the caller's select, which ends the caller
DoneHasRoom(sends) == sends < DoneCapacity

\* done <- v in the sender's goroutine: it goes through when the channel
\* has room or the caller is at its select, and blocks for good otherwise
TxSend(v) ==
    LET returned == rtc.sret # NotYet
        sent     == DoneHasRoom(rtc.ssends) \/ ~returned
    IN  [rtc EXCEPT !.tx = IF sent THEN "done" ELSE "blocked",
                    !.sdone = IF sent THEN v ELSE @,
                    !.ssends = IF sent THEN @ + 1 ELSE @,
                    !.slate = returned]

\* done <- v in the receiver's goroutine
RxSend(v) ==
    LET returned == rtc.rret # NotYet
        sent     == DoneHasRoom(rtc.rsends) \/ ~returned
    IN  [rtc EXCEPT !.rx = IF sent THEN "done" ELSE "blocked",
                    !.rdone = IF sent THEN v ELSE @,
                    !.rsends = IF sent THEN @ + 1 ELSE @,
                    !.rlate = returned]

\* keys.LoadPublicKey() on the receiver
RxLoadKey ==
    /\ rtc.rx = "load"
    /\ \E kerr \in BOOLEAN :
          IF kerr
          THEN rtc' = RxSend("failed to load public key")
          ELSE rtc' = [rtc EXCEPT !.rx = "sendkey"]
    /\ UNCHANGED << tvars, conns, keystore, retry, framing, nvars >>

\* util.SendWithLength(rw, pubBytes): both writes, or the length alone, or
\* nothing; on a closed channel nothing
RxSendKey ==
    /\ rtc.rx = "sendkey"
    /\ LET frame == SendWithLength(<< >>, MarshalPKCS1PublicKey(ReceiverKey))
       IN  \E n \in {0, 4, Len(frame)} :
              /\ rtc.rret # NotYet => n = 0
              /\ IF n = Len(frame)
                 THEN rtc' = [rtc EXCEPT !.rx = "receive", !.back = frame]
                 ELSE rtc' = [RxSend("failed to send public key")
                                 EXCEPT !.back = Take(frame, n)]
    /\ UNCHANGED << tvars, conns, keystore, retry, framing, nvars >>

\* The channel hands ReceiveFile what SendFile wrote, once the sender is
\* through with it or gone
ChannelDelivers ==
    /\ rtc.rx = "receive" /\ rpc = "idle"
    /\ spc \in {"done", "err"} \/ rtc.sret # NotYet
    /\ rstream' = wire
    /\ rpc' = "manifest"
    /\ UNCHANGED << svars, tamper, rpos, rmanifest, rkey, rnonce, rcounter, rchunk,
                    rplain, rerr, disk, verified, lastLen, fault, conns, xvars >>

\* transfer.ReceiveFile has returned: done <- err, or done <- nil
RxFinish ==
    /\ rtc.rx = "receive" /\ rpc \in {"ok", "err"}
    /\ rtc' = RxSend(IF rpc = "ok" THEN "nil" ELSE rerr)
    /\ UNCHANGED << tvars, conns, keystore, retry, framing, nvars >>

\* select { case err := <-done: return err; case <-ctx.Done(): return ctx.Err() }
\* and the deferred pc.Close(): a ReceiveFile that waits for bytes sees the
\* end of the stream
ReceiverReturns ==
    /\ rtc.rx # "foreign" /\ rtc.rret = NotYet
    /\ \E r \in {rtc.rdone, DeadlineExceeded} :
          /\ r # NotYet
          /\ rtc' = [rtc EXCEPT !.rret = r]
    /\ IF rtc.rx = "receive" /\ rpc = "idle"
       THEN rstream' = << >> /\ rpc' = "manifest"
       ELSE UNCHANGED << rstream, rpc >>
    /\ UNCHANGED << svars, tamper, rpos, rmanifest, rkey, rnonce, rcounter, rchunk,
                    rplain, rerr, disk, verified, lastLen, fault, conns,
                    keystore, retry, framing, nvars >>

StartWebRTCReceiver == RxLoadKey \/ RxSendKey \/ RxFinish \/ ReceiverReturns

\* A peer that is no StartWebRTCReceiver frames what it likes, whole or cut,
\* and is gone
PeerSendsKey ==
    /\ rtc.rx = "load" /\ rtc.back = << >>
    /\ \E k \in ForeignKeys, cut \in BOOLEAN :
          LET frame == SendWithLength(<< >>, k)
          IN  rtc' = [rtc EXCEPT !.rx = "foreign",
                                 !.back = IF cut THEN Take(frame, Len(frame) - 1) ELSE frame]
    /\ UNCHANGED << tvars, conns, keystore, retry, framing, nvars >>

\* The channel is closed under the sender's read: either side has returned,
\* or the peer is gone
BackClosed == rtc.rret # NotYet \/ rtc.sret # NotYet \/ rtc.rx = "foreign"

\* rpubBytes, rerr := util.ReadWithLength(rw): blocks until the frame is
\* there or the channel is closed
TxReadKey ==
    /\ rtc.tx = "readkey"
    /\ LET r == ReadWithLength(rtc.back, 0)
       IN  /\ r.ok \/ BackClosed
           /\ IF r.ok
              THEN rtc' = [rtc EXCEPT !.tx = "parse", !.rpubBytes = r.data]
              ELSE rtc' = TxSend("failed to read receiver pub key")
    /\ UNCHANGED << tvars, conns, keystore, retry, framing, nvars >>

\* rpub, perr := x509.ParsePKCS1PublicKey(rpubBytes); on success
\* transfer.SendFile(rw, filePath, rpub) begins
TxParseKey ==
    /\ rtc.tx = "parse"
    /\ LET p == ParsePKCS1PublicKey(rtc.rpubBytes)
       IN  IF p.ok
           THEN /\ rtc' = [rtc EXCEPT !.tx = "send"]
                /\ rcvPub' = p.pub
                /\ spc' = IF rtc.sret # NotYet THEN "err" ELSE "manifest"
           ELSE /\ rtc' = TxSend("failed to parse receiver pub key")
                /\ UNCHANGED << rcvPub, spc >>
    /\ UNCHANGED << sfile, tape, wire, scounter, soff, emitted, rstream, tamper, rvars,
                    conns, keystore, retry, framing, nvars >>

\* transfer.SendFile has returned: done <- err, or done <- nil
TxFinish ==
    /\ rtc.tx = "send" /\ spc \in {"done", "err"}
    /\ rtc' = TxSend(IF spc = "done" THEN "nil" ELSE "send failed")
    /\ UNCHANGED << tvars, conns, keystore, retry, framing, nvars >>

\* select { case err := <-done: return err; case <-ctx.Done(): return ctx.Err() }
\* and the deferred pc.Close(): the write SendFile is at fails
SenderReturns ==
    /\ rtc.sret = NotYet
    /\ \E r \in {rtc.sdone, DeadlineExceeded} :
          /\ r # NotYet
          /\ rtc' = [rtc EXCEPT !.sret = r]
    /\ IF rtc.tx = "send" /\ spc \notin {"done", "err"}
       THEN spc' = "err"
       ELSE UNCHANGED spc
    /\ UNCHANGED << sfile, rcvPub, tape, wire, scounter, soff, emitted, rstream, tamper,
                    rvars, conns, keystore, retry, framing, nvars >>

StartWebRTCSender == TxReadKey \/ TxParseKey \/ TxFinish \/ SenderReturns

\* The files sent over the channel
RTCFiles == {f \in Files : Len(f.data) <= ChunkSize + 1}

RTCInit ==
    /\ sfile \in RTCFiles
    /\ rcvPub = 0
    /\ tape \in RandomTapes /\ tape.key[1] = 17
    /\ spc = "wait"
    /\ wire = << >>
    /\ scounter = ZeroCounter
    /\ soff = 0
    /\ emitted = << >>
    /\ rstream = << >>
    /\ tamper = [kind |-> "none", at |-> 0, from |-> 0]
    /\ rpc = "idle"
    /\ rpos = 0
    /\ rmanifest = NoManifest
    /\ rkey = << >>
    /\ rnonce = << >>
    /\ rcounter = ZeroCounter
    /\ rchunk = << >>
    /\ rplain = << >>
    /\ rerr = "none"
    /\ disk = NoFile
    /\ verified = << >>
    /\ lastLen = 0 - 1
    /\ fault = FALSE
    /\ conns = << >>
    /\ rtc = [rx |-> "load", tx |-> "readkey", back |-> << >>, rpubBytes |-> << >>,
              sdone |-> NotYet, rdone |-> NotYet, sret |-> NotYet, rret |-> NotYet,
              ssends |-> 0, rsends |-> 0, slate |-> FALSE, rlate |-> FALSE]
    /\ keystore = Off /\ retry = Off /\ framing = Off
    /\ orch = Off /\ ln = Listening

RTCNext == \/ StartWebRTCReceiver \/ StartWebRTCSender
           \/ SendFile \/ ChannelDelivers \/ ReceiveFile
           \/ PeerSendsKey

\* Both ends of one data channel
SpecRTC == RTCInit /\ [][RTCNext]_vars

(***************************************************************************)
(* The key store (pkg/keys): GenerateRSAKeyPair, LoadPrivateKey and        *)
(* LoadPublicKey on the two files of one working directory, called by the  *)
(* tasks of one node.  A file is absent, or created with no whole PEM      *)
(* block in it, or holds its half of the keypair with a number.  Every     *)
(* system call is a step of its own.  keystore holds                       *)
(*   priv, pub  private.pem and public.pem                                 *)
(*   gen        keypairs rsa.GenerateKey has made so far                   *)
(*   calls      calls into the package so far                              *)
(*   task       per task: the call it is in and where                      *)
(*   log        history: the calls that have returned                      *)
(***************************************************************************)
\* Calls into the package in one run.
MaxCalls == 2

\* The tasks of the node that may need the keys at the same time: the
\* orchestrator and a connection handler
Tasks == {1, 2}

\* os.IsNotExist: no such file
Absent == 0 - 1
\* os.Create has made or truncated the file, no PEM block is in it
Partial == 0

KeyOps == {"GenerateRSAKeyPair", "LoadPrivateKey", "LoadPublicKey"}

IdleTask == [pc |-> "idle", op |-> "none", nested |-> FALSE, key |-> 0,
             before |-> << Absent, Absent >>]

\* A check that never finds the file.
KeyFileExistsNever(f) == FALSE

\* os.Stat(path) returned err == nil
KeyFileExists(f) == f # Absent

\* The file a Load call opens
Wanted(ks, t) == IF ks.task[t].op = "LoadPrivateKey" THEN ks.priv ELSE ks.pub

\* The call of task t returns ret (and for a Load, the key it parsed)
Returned(ks, t, ret, key) ==
    [ks EXCEPT !.task[t] = IdleTask,
               !.log = Append(ks.log,
                   [task |-> t, op |-> ks.task[t].op, before |-> ks.task[t].before,
                    after |-> << ks.priv, ks.pub >>, ret |-> ret, key |-> key,
                    gen |-> ks.gen])]

\* GenerateRSAKeyPair returns err: to its caller, or into the Load that
\* called it ("Try opening again after generating")
GenReturns(ks, t, err) ==
    IF ks.task[t].nested
    THEN IF err = "nil"
         THEN [ks EXCEPT !.task[t].pc = "reopen"]
         ELSE Returned(ks, t, "failed to generate RSA key pair", 0)
    ELSE Returned(ks, t, err, 0)

\* A task calls into the package
KeyCall(t) ==
    /\ keystore.task[t].pc = "idle" /\ keystore.calls < MaxCalls
    /\ \E op \in KeyOps :
          keystore' = [keystore EXCEPT
              !.calls = @ + 1,
              !.task[t] = [pc |-> IF op = "GenerateRSAKeyPair" THEN "statpriv" ELSE "open",
                           op |-> op, nested |-> FALSE, key |-> 0,
                           before |-> << keystore.priv, keystore.pub >>]]
    /\ UNCHANGED << tvars, conns, rtc, retry, framing, nvars >>

\* os.Stat(PrivateKeyPath)
StatPrivate(t) ==
    /\ keystore.task[t].pc = "statpriv"
    /\ \E ok \in BOOLEAN :
          keystore' =
             IF ~ok THEN GenReturns(keystore, t, "failed to stat private key file")
             ELSE IF KeyFileExists(keystore.priv) THEN GenReturns(keystore, t, "nil")
             ELSE [keystore EXCEPT !.task[t].pc = "statpub"]
    /\ UNCHANGED << tvars, conns, rtc, retry, framing, nvars >>

\* A call that looks for the private key alone.
StatPublicSkipped(t) ==
    /\ keystore.task[t].pc = "statpub"
    /\ keystore' = [keystore EXCEPT !.task[t].pc = "create"]
    /\ UNCHANGED << tvars, conns, rtc, retry, framing, nvars >>

\* os.Stat(PublicKeyPath)
StatPublic(t) ==
    /\ keystore.task[t].pc = "statpub"
    /\ \E ok \in BOOLEAN :
          keystore' =
             IF ~ok THEN GenReturns(keystore, t, "failed to stat public key file")
             ELSE IF KeyFileExists(keystore.pub) THEN GenReturns(keystore, t, "nil")
             ELSE [keystore EXCEPT !.task[t].pc = "create"]
    /\ UNCHANGED << tvars, conns, rtc, retry, framing, nvars >>

\* rsa.GenerateKey and os.Create(PrivateKeyPath)
CreatePrivate(t) ==
    /\ keystore.task[t].pc = "create"
    /\ \E e \in {"ok", "generate", "create"} :
          LET made == [keystore EXCEPT !.gen = @ + 1, !.task[t].key = keystore.gen + 1]
          IN  keystore' =
                 CASE e = "generate" ->
                        GenReturns(keystore, t, "failed to generate RSA key")
                   [] e = "create" ->
                        GenReturns(made, t, "failed to create private key file")
                   [] OTHER ->
                        [made EXCEPT !.priv = Partial, !.task[t].pc = "encpriv"]
    /\ UNCHANGED << tvars, conns, rtc, retry, framing, nvars >>

\* pem.Encode(privFile, privBlock)
EncodePrivate(t) ==
    /\ keystore.task[t].pc = "encpriv"
    /\ \E ok \in BOOLEAN :
          keystore' =
             IF ~ok THEN GenReturns(keystore, t, "failed to encode private key")
             ELSE [keystore EXCEPT !.priv = keystore.task[t].key,
                                   !.task[t].pc = "createpub"]
    /\ UNCHANGED << tvars, conns, rtc, retry, framing, nvars >>

\* os.Create(PublicKeyPath)
CreatePublic(t) ==
    /\ keystore.task[t].pc = "createpub"
    /\ \E ok \in BOOLEAN :
          keystore' =
             IF ~ok THEN GenReturns(keystore, t, "failed to create public key file")
             ELSE [keystore EXCEPT !.pub = Partial, !.task[t].pc = "encpub"]
    /\ UNCHANGED << tvars, conns, rtc, retry, framing, nvars >>

\* pem.Encode(pubFile, pubBlock) and return nil
EncodePublic(t) ==
    /\ keystore.task[t].pc = "encpub"
    /\ \E ok \in BOOLEAN :
          keystore' =
             IF ~ok THEN GenReturns(keystore, t, "failed to encode public key")
             ELSE GenReturns([keystore EXCEPT !.pub = keystore.task[t].key], t, "nil")
    /\ UNCHANGED << tvars, conns, rtc, retry, framing, nvars >>

GenerateRSAKeyPair(t) ==
    \/ StatPrivate(t) \/ StatPublic(t) \/ CreatePrivate(t)
    \/ EncodePrivate(t) \/ CreatePublic(t) \/ EncodePublic(t)

\* os.Open(path) of LoadPrivateKey / LoadPublicKey; a missing file calls
\* GenerateRSAKeyPair
OpenKey(t) ==
    /\ keystore.task[t].pc = "open"
    /\ \E ok \in BOOLEAN :
          keystore' =
             IF Wanted(keystore, t) = Absent
             THEN [keystore EXCEPT !.task[t].pc = "statpriv", !.task[t].nested = TRUE]
             ELSE IF ~ok THEN Returned(keystore, t, "failed to open key file", 0)
             ELSE [keystore EXCEPT !.task[t].pc = "read"]
    /\ UNCHANGED << tvars, conns, rtc, retry, framing, nvars >>

\* "Try opening again after generating"
ReopenKey(t) ==
    /\ keystore.task[t].pc = "reopen"
    /\ \E ok \in BOOLEAN :
          keystore' =
             IF Wanted(keystore, t) = Absent \/ ~ok
             THEN Returned(keystore, t, "failed to open key file after generation", 0)
             ELSE [keystore EXCEPT !.task[t].pc = "read"]
    /\ UNCHANGED << tvars, conns, rtc, retry, framing, nvars >>

\* io.ReadAll, pem.Decode, x509.ParsePKCS1PrivateKey / ParsePKCS1PublicKey
ReadKey(t) ==
    /\ keystore.task[t].pc = "read"
    /\ \E ok \in BOOLEAN :
          keystore' =
             IF ~ok THEN Returned(keystore, t, "failed to read key file", 0)
             ELSE IF Wanted(keystore, t) = Partial
             THEN Returned(keystore, t, "invalid key PEM", 0)
             ELSE Returned(keystore, t, "nil", Wanted(keystore, t))
    /\ UNCHANGED << tvars, conns, rtc, retry, framing, nvars >>

LoadKey(t) == OpenKey(t) \/ ReopenKey(t) \/ ReadKey(t)

\* The working directory of a first run, of a run after one that made its
\* keypair, or one that holds only one of the two files
KeysInit ==
    /\ TransferInit
    /\ sfile = [name |-> PlainName, data |-> << >>]
    /\ rcvPub = ReceiverKey
    /\ tape.key[1] = 17
    /\ conns = << >>
    /\ \E priv \in {Absent, 1}, pub \in {Absent, 1} :
          keystore = [priv |-> priv, pub |-> pub,
                      gen |-> IF priv = 1 \/ pub = 1 THEN 1 ELSE 0, calls |-> 0,
                      task |-> [t \in Tasks |-> IdleTask], log |-> << >>]
    /\ rtc = Off /\ retry = Off /\ framing = Off
    /\ orch = Off /\ ln = Listening

KeysNext == \E t \in Tasks : KeyCall(t) \/ GenerateRSAKeyPair(t) \/ LoadKey(t)

\* The tasks of one node on its key files
SpecKeys == KeysInit /\ [][KeysNext]_vars

(***************************************************************************)
(* The orchestrator's shutdown (main.go): a signal calls cancel(), main    *)
(* returns from <-ctx.Done() and the process ends with its goroutines      *)
(* wherever they are.  ReceiveFile takes no context and is told nothing.   *)
(***************************************************************************)
\* ReceiveFile's positions inside the chunk loop
LoopPositions == {"chunklen", "body", "decrypt", "write"}

\* sig := <-sigCh; cancel(); <-ctx.Done(); return
Shutdown ==
    /\ rpc \in {"manifest", "senderkey", "sessionkey", "nonce", "create"} \cup LoopPositions
    /\ rpc' = IF rpc \in LoopPositions THEN "killed in loop" ELSE "killed in handshake"
    /\ UNCHANGED << svars, rstream, tamper, rpos, rmanifest, rkey, rnonce, rcounter,
                    rchunk, rplain, rerr, disk, verified, lastLen, fault, conns, xvars >>

CancelNext == SendFile \/ Deliver \/ ReceiveFile \/ Shutdown

\* One transfer on a node whose operator may interrupt it
SpecCancel == Init /\ [][CancelNext]_vars

(***************************************************************************)
(* util.RetryWithBackoff(ctx, maxRetries, initialBackoff, fn)              *)
(* (pkg/util/logger.go), as main calls it around the dial.  Durations are  *)
(* in seconds.  retry holds the arguments, the locals i, backoff and err,  *)
(* whether ctx is done, what was returned, and as history what fn          *)
(* returned at each call and how long each wait took.                      *)
(***************************************************************************)
\* Largest maxRetries a caller passes; main passes 3.
MaxRetries == 3

\* What fn may return: nil, or one of three errors
FnErrors == {"dial refused", "dial timeout", "no route"}

NoReturn == [kind |-> "none", n |-> 0, wraps |-> "none"]

\* A backoff that never grows.
NextBackoffFlat(backoff) == backoff

\* backoff *= 2
NextBackoff(backoff) == backoff * 2

\* err = fn(); return nil on success; break after the last attempt; else
\* start the timer
RetryAttempt ==
    /\ retry.pc = "call"
    /\ \E e \in FnErrors \cup {"nil"} :
          retry' =
             IF e = "nil"
             THEN [retry EXCEPT !.calls = Append(@, e), !.err = e, !.pc = "done",
                                !.ret = [kind |-> "nil", n |-> 0, wraps |-> "none"]]
             ELSE IF retry.i = retry.maxRetries - 1
             THEN [retry EXCEPT !.calls = Append(@, e), !.err = e, !.pc = "done",
                                !.ret = [kind |-> "after attempts",
                                         n |-> retry.maxRetries, wraps |-> e]]
             ELSE [retry EXCEPT !.calls = Append(@, e), !.err = e, !.pc = "wait"]
    /\ UNCHANGED << tvars, conns, rtc, keystore, framing, nvars >>

\* case <-timer.C: backoff *= 2; i++. The select looks at nothing but the
\* two channels: with the timer due and ctx done it takes either case
RetryTimerFires ==
    /\ retry.pc = "wait"
    /\ retry' = [retry EXCEPT !.waits = Append(@, retry.backoff),
                              !.backoff = NextBackoff(@),
                              !.i = @ + 1,
                              !.pc = "call"]
    /\ UNCHANGED << tvars, conns, rtc, keystore, framing, nvars >>

\* case <-ctx.Done(): timer.Stop(); return ctx.Err()
RetryCancelled ==
    /\ retry.pc = "wait" /\ retry.ctxDone
    /\ retry' = [retry EXCEPT !.pc = "done",
                              !.ret = [kind |-> "context canceled", n |-> 0,
                                       wraps |-> "none"]]
    /\ UNCHANGED << tvars, conns, rtc, keystore, framing, nvars >>

RetryWithBackoff == RetryAttempt \/ RetryTimerFires \/ RetryCancelled

\* The orchestrator's cancel(), at any time
RetryCtxDone ==
    /\ retry.pc # "done" /\ ~retry.ctxDone
    /\ retry' = [retry EXCEPT !.ctxDone = TRUE]
    /\ UNCHANGED << tvars, conns, rtc, keystore, framing, nvars >>

\* The loop "for i := 0; i < maxRetries; i++" is entered
RetryInit ==
    /\ TransferInit
    /\ sfile = [name |-> PlainName, data |-> << >>]
    /\ rcvPub = ReceiverKey
    /\ tape.key[1] = 17
    /\ conns = << >>
    /\ \E m \in 1..MaxRetries, b \in {1, 2} :
          retry = [pc |-> "call", maxRetries |-> m, initialBackoff |-> b,
                   i |-> 0, backoff |-> b, err |-> "nil", ctxDone |-> FALSE,
                   ret |-> NoReturn, calls |-> << >>, waits |-> << >>]
    /\ rtc = Off /\ keystore = Off /\ framing = Off
    /\ orch = Off /\ ln = Listening

RetryNext == RetryWithBackoff \/ RetryCtxDone

\* One call of RetryWithBackoff
SpecRetry == RetryInit /\ [][RetryNext]_vars

(***************************************************************************)
(* util.SendWithLength and util.ReadWithLength on one stream               *)
(* (pkg/util/util.go): a writer frames body after what the stream already  *)
(* holds, the stream may end early, and a reader reads one frame from      *)
(* where the writer began.  framing holds the body, the stream before and  *)
(* after the write, what reaches the reader, and what the reader returned. *)
(***************************************************************************)
\* Longest body of which every content is tried.
MaxBody == 3

\* Bodies whose length needs the second byte of the length field
LongBodies == {[i \in 1..n |-> i % 256] : n \in {256, 258}}

FrameBodies == SeqsUpTo({0, 255}, MaxBody) \cup LongBodies

\* What the stream holds before the frame
FramePrefixes == {<< >>, << 0, 0, 0, 1, 7 >>}

NoRead == [ok |-> FALSE, data |-> << >>, pos |-> 0, alloc |-> 0]

\* util.SendWithLength(w, body)
FrameSend ==
    /\ framing.pc = "send"
    /\ framing' = [framing EXCEPT !.pc = "sent",
                                  !.out = SendWithLength(framing.pre, framing.body),
                                  !.arrived = SendWithLength(framing.pre, framing.body)]
    /\ UNCHANGED << tvars, conns, rtc, keystore, retry, nvars >>

\* The source ends during the length or the body
FrameCut ==
    /\ framing.pc = "sent"
    /\ \E k \in Len(framing.pre)..(Len(framing.out) - 1) :
          framing' = [framing EXCEPT !.pc = "cut", !.arrived = Take(framing.out, k)]
    /\ UNCHANGED << tvars, conns, rtc, keystore, retry, nvars >>

\* util.ReadWithLength(r)
FrameRead ==
    /\ framing.pc \in {"sent", "cut"}
    /\ framing' = [framing EXCEPT !.pc = "read",
                                  !.res = ReadWithLength(framing.arrived, Len(framing.pre))]
    /\ UNCHANGED << tvars, conns, rtc, keystore, retry, nvars >>

FramingInit ==
    /\ TransferInit
    /\ sfile = [name |-> PlainName, data |-> << >>]
    /\ rcvPub = ReceiverKey
    /\ tape.key[1] = 17
    /\ conns = << >>
    /\ \E b \in FrameBodies, p \in FramePrefixes :
          framing = [pc |-> "send", body |-> b, pre |-> p, out |-> p, arrived |-> p,
                     res |-> NoRead]
    /\ rtc = Off /\ keystore = Off /\ retry = Off /\ orch = Off /\ ln = Listening

FramingNext == FrameSend \/ FrameCut \/ FrameRead

\* One frame written and read back
SpecFraming == FramingInit /\ [][FramingNext]_vars

(***************************************************************************)
(* main (main.go): the orchestrator, its two background services, the      *)
(* error channel and the signal handler.                                   *)
(***************************************************************************)

\* The goroutines that report on errCh: netconn.StartTCPServer and
\* discovery.Announce
Services == {"TCP server error", "service announcement error"}

\* errCh := make(chan error, 1)
ErrChCapacity == 1

\* The process has not ended
Running == 0 - 1

\* main's flags: -file with a path that exists or not, -connect, -search
OrchInit ==
    /\ TransferInit
    /\ sfile = [name |-> PlainName, data |-> << >>]
    /\ rcvPub = ReceiverKey
    /\ tape.key[1] = 17
    /\ conns = << >>
    /\ rtc = Off /\ keystore = Off /\ retry = Off /\ framing = Off
    /\ ln = Listening
    /\ \E file \in {"none", "exists", "missing"}, connect \in BOOLEAN,
          search \in BOOLEAN :
          orch = [pc |-> "flags", file |-> file, connect |-> connect,
                  search |-> search,
                  service |-> [s \in Services |-> "off"],
                  errCh |-> << >>, ctxDone |-> FALSE, exit |-> Running,
                  failed |-> FALSE]

\* if *filePath != "" { if os.Stat says it does not exist: os.Exit(1) }
MainFlags ==
    /\ orch.pc = "flags"
    /\ IF orch.file = "missing"
       THEN orch' = [orch EXCEPT !.pc = "exited", !.exit = 1]
       ELSE orch' = [orch EXCEPT !.pc = "start"]
    /\ UNCHANGED << tvars, conns, rtc, keystore, retry, framing, ln >>

\* go func() { StartTCPServer }(); go func() { Announce }()
MainStartServices ==
    /\ orch.pc = "start"
    /\ orch' = [orch EXCEPT !.pc = "window",
                            !.service = [s \in Services |-> "running"]]
    /\ UNCHANGED << tvars, conns, rtc, keystore, retry, framing, ln >>

\* The service returns an error: at its start or at any later time
ServiceFails(s) ==
    /\ orch.pc # "exited"
    /\ orch.service[s] = "running"
    /\ orch' = [orch EXCEPT !.service[s] = "failed", !.failed = TRUE]
    /\ UNCHANGED << tvars, conns, rtc, keystore, retry, framing, ln >>

\* errCh <- fmt.Errorf("...: %w", err); the send waits while the channel
\* is full
ServiceReports(s) ==
    /\ orch.pc # "exited"
    /\ orch.service[s] = "failed"
    /\ Len(orch.errCh) < ErrChCapacity
    /\ orch' = [orch EXCEPT !.service[s] = "reported", !.errCh = Append(@, s)]
    /\ UNCHANGED << tvars, conns, rtc, keystore, retry, framing, ln >>

\* select { case <-time.After(3 * time.Second): ... }
MainWindowCloses ==
    /\ orch.pc = "window"
    /\ orch' = [orch EXCEPT !.pc = "connect"]
    /\ UNCHANGED << tvars, conns, rtc, keystore, retry, framing, ln >>

\* select { case err := <-errCh: log.Error(...); os.Exit(1) }
MainWindowError ==
    /\ orch.pc = "window"
    /\ orch.errCh # << >>
    /\ orch' = [orch EXCEPT !.pc = "exited", !.exit = 1, !.errCh = Tail(@)]
    /\ UNCHANGED << tvars, conns, rtc, keystore, retry, framing, ln >>

\* if *connect != "" { ConnectTCP; its error is logged }
MainConnect ==
    /\ orch.pc = "connect"
    /\ orch' = [orch EXCEPT !.pc = "search"]
    /\ UNCHANGED << tvars, conns, rtc, keystore, retry, framing, ln >>

\* if *search != "" { FindPeers; RetryWithBackoff(ConnectTCP) per peer;
\* the errors are logged }
MainSearch ==
    /\ orch.pc = "search"
    /\ orch' = [orch EXCEPT !.pc = "wait"]
    /\ UNCHANGED << tvars, conns, rtc, keystore, retry, framing, ln >>

\* sig := <-sigCh; cancel()
Signal ==
    /\ orch.pc \notin {"off", "exited"}
    /\ ~orch.ctxDone
    /\ orch' = [orch EXCEPT !.ctxDone = TRUE]
    /\ UNCHANGED << tvars, conns, rtc, keystore, retry, framing, ln >>

\* <-ctx.Done(); log.Info("Shutting down..."); main returns
MainShutdown ==
    /\ orch.pc = "wait"
    /\ orch.ctxDone
    /\ orch' = [orch EXCEPT !.pc = "exited", !.exit = 0]
    /\ UNCHANGED << tvars, conns, rtc, keystore, retry, framing, ln >>

main == MainFlags \/ MainStartServices \/ MainWindowCloses \/ MainWindowError
           \/ MainConnect \/ MainSearch \/ MainShutdown

OrchNext == main \/ Signal \/ \E s \in Services : ServiceFails(s) \/ ServiceReports(s)

\* The orchestrator from its start to the end of the process
SpecOrch == OrchInit /\ [][OrchNext]_vars

\* The same under the scheduler: a goroutine that can run does run, a
\* timer that was set fires. The operator's signal and a service's failure
\* are not owed.
SpecOrchFair ==
    /\ SpecOrch
    /\ WF_vars(main)
    /\ \A s \in Services : WF_vars(ServiceReports(s))

(***************************************************************************)
(* The claims about one transfer.                                          *)
(***************************************************************************)
Terminated == rpc \in {"ok", "err", "panic"}

\* A frame as the wire format defines it: LEN32, big endian, then the bytes
WireFrame(b) == << 0, 0, (Len(b) \div 256) % 256, Len(b) % 256 >> \o b

\* Plaintext chunk k (from 0) of data
PlainChunk(data, k) ==
    SubSeq(data, k * ChunkSize + 1, Min((k + 1) * ChunkSize, Len(data)))

ChunkCount(data) == (Len(data) + ChunkSize - 1) \div ChunkSize

\* The nonce of chunk k: the base nonce, its last 4 bytes the counter k
NonceOf(base, k) == SubSeq(base, 1, NonceSize - 4) \o << 0, 0, (k \div 256) % 256, k % 256 >>

\* The chunks k.. of data on the wire
RECURSIVE WireChunks(_, _, _, _)
WireChunks(data, key, base, k) ==
    IF k >= ChunkCount(data) THEN << >>
    ELSE WireFrame(GcmSeal(key, NonceOf(base, k), PlainChunk(data, k)))
         \o WireChunks(data, key, base, k + 1)

\* The plaintext of the chunks before chunk i (from 1)
PlainBefore(i) == SubSeq(sfile.data, 1, Min((i - 1) * ChunkSize, Len(sfile.data)))

\* C1: when SendFile returns nil, the bytes it wrote are the manifest frame,
\* the sender public key frame, the wrapped session key frame, the base nonce
\* frame, the chunks with the counters 0, 1, 2, ... in this order, and the
\* 4-byte zero terminator last, with nothing in between.
C1_SendOrder ==
    spc = "done" =>
        /\ wire = WireFrame(SerializeManifest(CreateManifest(sfile)))
                  \o WireFrame(MarshalPKCS1PublicKey(SenderKey))
                  \o WireFrame(EncryptOAEP(rcvPub, tape.key))
                  \o WireFrame(tape.nonce)
                  \o WireChunks(sfile.data, tape.key, tape.nonce, 0)
                  \o << 0, 0, 0, 0 >>
        /\ Len(emitted) = ChunkCount(sfile.data)
        /\ \A k \in 1..Len(emitted) : emitted[k].counter = << 0, 0, 0, k - 1 >>

C1_Witness == spc = "done" /\ Len(emitted) >= 2 /\ Len(sfile.data) % ChunkSize # 0

\* C2: a stream SendFile wrote for the receiver's key and that arrives whole
\* and in order makes ReceiveFile return nil with the output file equal to
\* the file sent, named by the manifest's file_name, and the parsed manifest
\* carries the sender's file_size and file_name.
C2_RoundTrip ==
    (spc = "done" /\ tamper.kind = "none" /\ rcvPub = ReceiverKey /\ Terminated /\ ~fault) =>
        /\ rpc = "ok"
        /\ disk.exists
        /\ disk.data = sfile.data
        /\ disk.path = OutputPath(rmanifest.FileName)
        /\ rmanifest.FileSize = Len(sfile.data)
        /\ rmanifest.FileName = sfile.name

\* C3: the nonces of the chunks of one session are the base nonce with the
\* counter from 0 in the last 4 bytes, and pairwise distinct.
C3_NonceUnique ==
    /\ \A a \in 1..Len(emitted) : emitted[a].nonce = NonceOf(tape.nonce, a - 1)
    /\ \A a, b \in 1..Len(emitted) : a # b => emitted[a].nonce # emitted[b].nonce

C3_Witness == Len(emitted) >= 2 /\ emitted[1].pt = emitted[2].pt

\* C4: a chunk whose ciphertext (tag included) differs from what was sent
\* makes ReceiveFile return the decryption error at that chunk, never nil,
\* and none of its bytes reaches the output file.
C4_TamperDetected ==
    tamper.kind = "flipped" =>
        /\ rpc # "ok"
        /\ disk.exists =>
              /\ Len(disk.data) <= Len(PlainBefore(tamper.at))
              /\ disk.data = Take(sfile.data, Len(disk.data))
        /\ (rpc = "decrypt" /\ rcounter = << 0, 0, 0, tamper.at - 1 >>) =>
              rchunk # emitted[tamper.at].ct
        /\ (Terminated /\ ~fault /\ rcvPub = ReceiverKey) =>
              /\ rpc = "err" /\ rerr = "decryption failed"
              /\ rcounter = << 0, 0, 0, tamper.at - 1 >>
              /\ disk.data = PlainBefore(tamper.at)

C4_Witness ==
    /\ tamper.kind = "flipped" /\ tamper.at = 2
    /\ rpc = "err" /\ rerr = "decryption failed"
    /\ disk.exists /\ disk.data = PlainBefore(2) /\ disk.data # << >>

\* C5: the ciphertext of chunk j delivered at position i # j fails to decrypt
\* at position i, where the receiver derives the nonce from its own counter.
C5_ReplayDetected ==
    tamper.kind = "replayed" =>
        /\ rpc # "ok"
        /\ (rpc = "decrypt" /\ rcounter = << 0, 0, 0, tamper.at - 1 >>) =>
              /\ rchunk = emitted[tamper.from].ct
              /\ ~GcmOpen(rkey, DeriveNonce(rnonce, rcounter), rchunk).ok
        /\ (Terminated /\ ~fault /\ rcvPub = ReceiverKey) =>
              /\ rpc = "err" /\ rerr = "decryption failed"
              /\ rcounter = << 0, 0, 0, tamper.at - 1 >>

C5_Witness ==
    /\ tamper.kind = "replayed" /\ tamper.at = 1 /\ tamper.from = 2
    /\ emitted[1].pt = emitted[2].pt
    /\ rpc = "err" /\ rerr = "decryption failed"

\* C6: ReceiveFile returns nil only after reading a zero chunk length, and a
\* stream that ends before its terminator makes it return an error.
C6_TruncationDetected ==
    /\ rpc = "ok" =>
          /\ lastLen = 0 /\ rpos >= 4
          /\ SubSeq(rstream, rpos - 3, rpos) = << 0, 0, 0, 0 >>
    /\ (tamper.kind = "truncated" \/ (spc = "err" /\ tamper.kind = "none")) =>
          /\ rpc \notin {"ok", "panic"}
          /\ Terminated => rpc = "err"

C6_Witness ==
    /\ tamper.kind = "truncated" /\ rpc = "err"
    /\ rerr = "failed to read chunk length" /\ rcounter = << 0, 0, 0, 1 >>

\* C7: whenever ReceiveFile returns an error after creating the output file
\* (chunk length cut, chunk body cut, decryption failure, failed write), the
\* output file is gone when the error is returned.
C7_CleanupOnFailure ==
    (rpc = "err" /\ rerr \in {"failed to read chunk length",
                              "deleting file, failed to read chunk",
                              "decryption failed", "failed to write to file"}) =>
        ~disk.exists

\* C8: every byte in the output file is plaintext of a chunk whose tag was
\* verified before the write; nothing of a failed chunk is written.
C8_VerifiedBeforeWrite ==
    /\ \E k \in 0..Len(verified) : disk.data = Flatten(SubSeq(verified, 1, k))
    /\ rpc = "write" => (verified # << >> /\ rplain = verified[Len(verified)])

C8_Witness ==
    /\ tamper.kind = "flipped" /\ tamper.at = 2 /\ rpc = "err"
    /\ Len(verified) = 1 /\ disk.data = verified[1] /\ disk.data # << >>

(***************************************************************************)
(* The claims about the listener.                                          *)
(***************************************************************************)

\* C9: under every interleaving of inbound connections at most one
\* connection is admitted (authenticated and still open) at any time.
C9_Exclusivity == Cardinality(Admitted) <= 1

\* C10: a connection accepted while another one is admitted is turned away
\* before any byte is read from it: its handler reads nothing from it and
\* never answers it with SUCCESS or FAIL.
C10_LockedBeforeRead ==
    \A c \in ConnIds :
        conns[c].held =>
            /\ conns[c].nread = 0
            /\ conns[c].pc \notin {"compare", "admitted", "refused"}

\* A bcrypt hash made from passcode pw followed by nonce n
TagOver(hash, pw, n) ==
    Len(hash) >= 2 /\ hash[1] = 36 /\ SubSeq(hash, 3, Len(hash)) = pw \o n

\* The status line the handler of c wrote, << >> when none yet
StatusOf(c) == Drop(conns[c].out, Len(conns[c].nonce) + 1)

\* The text "hello123"
KnownPasscode == << 104, 101, 108, 108, 111, 49, 50, 51 >>

C12_ServerAuth ==
    \A c \in ConnIds :
        LET ok == TagOver(conns[c].clientHash, KnownPasscode, conns[c].nonce)
        IN  /\ conns[c].pc \in {"challenge", "read", "compare"} =>
                  StatusOf(c) = << >>
            /\ conns[c].pc = "admitted" => (ok /\ StatusOf(c) = Success)
            /\ conns[c].pc = "refused" => (~ok /\ StatusOf(c) = Fail)
            /\ conns[c].pc = "closed" =>
                  \/ ok /\ StatusOf(c) = Success
                  \/ ~ok /\ StatusOf(c) = Fail
            /\ StatusOf(c) = Fail => ~disk.exists

C12_Witness ==
    /\ Len(conns) = 2
    /\ conns[1].pc = "admitted" /\ conns[1].nonce # << >>
    /\ conns[2].pc = "closed" /\ StatusOf(2) = Fail /\ conns[2].nread > 0

\* C13: ConnectTCP returns nil only when the status line it read is exactly
\* SUCCESS; for FAIL or anything else it returns an error.
C13_ClientAuth ==
    \A c \in ConnIds :
        conns[c].cret = "nil" => conns[c].cresult = << 83, 85, 67, 67, 69, 83, 83 >>

\* C14: the handler sends its nonce before it reads anything; a tag made for
\* the nonce of one connection is refused on a connection with another nonce,
\* and a tag made from another passcode is refused whatever the nonce.
C14_ChallengeBinding ==
    /\ \A c \in ConnIds :
          /\ conns[c].pc = "challenge" => (conns[c].nread = 0 /\ conns[c].out = << >>)
          /\ conns[c].pc # "challenge" =>
                Take(conns[c].out, Len(conns[c].nonce) + 1) = conns[c].nonce \o Newline
          /\ (\E n \in generateNonce(ChallengeLen) :
                 TagOver(conns[c].clientHash, WrongPasscode, n)) =>
                StatusOf(c) # Success
    /\ \A c, d \in ConnIds :
          (c # d /\ conns[c].nonce # conns[d].nonce
           /\ TagOver(conns[d].clientHash, KnownPasscode, conns[c].nonce)) =>
              StatusOf(d) # Success

C14_Witness ==
    /\ Len(conns) = 2
    /\ StatusOf(1) = Success
    /\ conns[2].clientHash = conns[1].clientHash
    /\ conns[2].nonce # conns[1].nonce /\ conns[2].nonce # << >> /\ conns[1].nonce # << >>
    /\ StatusOf(2) = Fail

(***************************************************************************)
(* The claims about the receiver's handshake and its limits.               *)
(***************************************************************************)

\* The errors ReceiveFile returns before it creates the output file
HandshakeErrors ==
    {"failed to create output directory", "failed to read manifest",
     "failed to parse manifest", "failed to read sender public key",
     "failed to parse sender public key", "failed to read encrypted file key",
     "failed to load private key", "failed to decrypt file key",
     "failed to create cipher", "failed to read nonce", "invalid nonce size",
     "failed to create output file"}

\* The four handshake frames of a stream, as byte counts: the end of each
FrameEnd(stream, k) ==
    LET e1 == 4 + Uint32(SubSeq(stream, 1, 4))
        e2 == e1 + 4 + Uint32(SubSeq(stream, e1 + 1, e1 + 4))
        e3 == e2 + 4 + Uint32(SubSeq(stream, e2 + 1, e2 + 4))
        e4 == e3 + 4 + Uint32(SubSeq(stream, e3 + 1, e3 + 4))
    IN  << e1, e2, e3, e4 >>[k]

\* C15: the output file exists only once the manifest, the sender key, the
\* session key (unwrapped with the receiver's own key) and a base nonce of
\* the AEAD's nonce size have been read in this order; it is created before
\* the first chunk length is read; a failed handshake step returns an error
\* and leaves no file.
C15_HandshakeOrder ==
    /\ rpc \in {"idle", "manifest", "senderkey", "sessionkey", "nonce", "create"} =>
          (~disk.exists /\ lastLen = 0 - 1)
    /\ (rpc = "err" /\ rerr \in HandshakeErrors) => (~disk.exists /\ lastLen = 0 - 1)
    /\ lastLen # 0 - 1 => rpos > FrameEnd(rstream, 4)
    /\ disk.exists =>
          /\ rpos >= FrameEnd(rstream, 4)
          /\ rmanifest.LastModTime = ModTimeText
          /\ rcvPub = ReceiverKey
          /\ rkey = tape.key
          /\ rnonce = tape.nonce /\ Len(rnonce) = 12
          /\ SubSeq(rstream, FrameEnd(rstream, 3) + 5, FrameEnd(rstream, 4)) = rnonce
          /\ SubSeq(rstream, FrameEnd(rstream, 1) + 5, FrameEnd(rstream, 2))
                = << 48, SenderKey >>

C15_Witness ==
    /\ rpc = "chunklen" /\ lastLen = 0 - 1
    /\ disk.exists /\ disk.data = << >>
    /\ rpos = FrameEnd(rstream, 4)

\* Whether name is the name of a file directly inside a directory
PlainFileName(name) ==
    /\ name # << >>
    /\ \A i \in 1..Len(name) : name[i] # 47

\* C16: a manifest whose file_name is empty or has a path separator, or whose
\* file_size is negative, makes ReceiveFile return the manifest error with no
\* file created; a file is only ever created directly inside the output
\* directory.
C16_ManifestValidated ==
    /\ (rpc \notin {"idle", "manifest"} /\ ~(rpc = "err" /\ rerr \in HandshakeErrors)) =>
          (PlainFileName(rmanifest.FileName) /\ rmanifest.FileSize >= 0)
    /\ disk.exists =>
          /\ Take(disk.path, Len(OutputDir) + 1) = OutputDir \o << 47 >>
          /\ PlainFileName(Drop(disk.path, Len(OutputDir) + 1))

\* C17: a chunk length above the receiver's buffer makes ReceiveFile return
\* an error: it neither crashes, nor reads the chunk, nor returns nil.
C17_ChunkTooLarge ==
    lastLen > ChunkSize + GCMOverhead =>
        /\ rpc \in {"body", "err"}
        /\ rpos <= FrameEnd(rstream, 4) + 4

\* The largest frame read_frame takes: 16 MiB
MaxFrameLen == 16 * 1024 * 1024

\* C18: ReadWithLength on a length above 16 MiB returns an error without
\* making the buffer or reading the body.
C18_FrameTooLarge ==
    (rpc = "manifest" /\ Len(rstream) >= 4 /\ Uint32(SubSeq(rstream, 1, 4)) > MaxFrameLen) =>
        LET r == ReadWithLength(rstream, rpos)
        IN  ~r.ok /\ r.alloc = 0 /\ r.pos = rpos + 4

(***************************************************************************)
(* The claims about the chunk counter.                                     *)
(***************************************************************************)

\* Whether counter a is below counter b, as big-endian numbers
CounterLess(a, b) ==
    \E i \in 1..4 : a[i] < b[i] /\ \A j \in 1..(i - 1) : a[j] = b[j]

\* C19: the chunk counter never wraps within a session: the counters of the
\* chunks SendFile emits grow strictly, so counter 0 and its nonce are never
\* used again; SendFile refuses the file instead.
C19_NoCounterWrap ==
    \A a, b \in 1..Len(emitted) :
        a < b => /\ CounterLess(emitted[a].counter, emitted[b].counter)
                 /\ emitted[a].nonce # emitted[b].nonce
                 /\ emitted[b].nonce # SubSeq(tape.nonce, 1, 8) \o << 0, 0, 0, 0 >>

\* The counter after k chunks
CounterOf(k) == << 0, 0, (k \div 256) % 256, k % 256 >>

\* C20: the sender's counter is the number of chunks whose length and
\* ciphertext are both on the wire, the receiver's counter the number of
\* chunks verified and written; a failed step leaves the counter alone, and
\* after a whole transfer both counters are the number of chunks.
C20_CounterDiscipline ==
    /\ scounter = CounterOf(Len(emitted))
    /\ \A k \in 1..Len(emitted) :
          /\ emitted[k].counter = CounterOf(k - 1)
          /\ SubSeq(wire, emitted[k].off - 3, emitted[k].off + Len(emitted[k].ct))
                = PutUint32(Len(emitted[k].ct)) \o emitted[k].ct
    /\ LET last == IF emitted = << >> THEN HandshakeEnd
                   ELSE emitted[Len(emitted)].off + Len(emitted[Len(emitted)].ct)
       IN  spc \in {"loop", "eof", "done", "err"} /\ Len(emitted) > 0 =>
              Len(wire) - last <= 4
    /\ rpc \in {"chunklen", "body", "decrypt", "ok", "panic"} =>
          rcounter = CounterOf(Len(verified))
    /\ rpc = "write" => rcounter = CounterOf(Len(verified) - 1)
    /\ (rpc = "err" /\ rerr = "failed to write to file") =>
          rcounter = CounterOf(Len(verified) - 1)
    /\ (rpc = "err" /\ rerr # "failed to write to file") =>
          rcounter = CounterOf(Len(verified))
    /\ disk.exists => rcounter = CounterOf((Len(disk.data) + ChunkSize - 1) \div ChunkSize)
    /\ (rpc = "ok" /\ tamper.kind = "none") => rcounter = scounter

C20_Witness ==
    /\ rpc = "err" /\ rerr = "decryption failed"
    /\ rcounter = << 0, 0, 0, 1 >> /\ scounter = << 0, 0, 0, 2 >>
    /\ Len(verified) = 1

(***************************************************************************)
(* The claims about the WebRTC data channel.                               *)
(***************************************************************************)
\* The receiver-to-sender bytes are one whole frame holding a PKCS#1 key
KeyFrameOf(k) == << 0, 0, 0, 2, 48, k >>

PreludeErrors == {"failed to read receiver pub key", "failed to parse receiver pub key"}

\* C21: on the data channel the receiver has written its length-prefixed
\* public key before ReceiveFile reads anything; the sender writes no byte
\* of the handshake before it has read a whole frame from the receiver and
\* parsed it as a public key, which is then the key SendFile wraps for; and
\* when the read or the parse fails the sender has sent nothing, its
\* goroutine reports that error, and StartWebRTCSender returns it.
C21_PreludeOrder ==
    /\ (rpc # "idle" \/ rpos > 0) => rtc.back = KeyFrameOf(ReceiverKey)
    /\ (wire # << >> \/ spc # "wait") =>
          /\ rtc.tx \in {"send", "done"}
          /\ rcvPub \in KeyIds
          /\ rtc.rpubBytes = << 48, rcvPub >>
          /\ rtc.back = KeyFrameOf(rcvPub)
    /\ (rtc.tx = "done" /\ ~(\E k \in KeyIds : rtc.back = KeyFrameOf(k))) =>
          /\ rtc.sdone \in PreludeErrors
          /\ wire = << >> /\ spc = "wait"
    /\ rtc.sdone \in PreludeErrors => wire = << >> /\ spc = "wait"
    /\ rtc.sret \notin {NotYet, DeadlineExceeded} => rtc.sret = rtc.sdone

\* The receiver sent its key first, the sender parsed it and sent the file,
\* and both sides returned nil
C21_Witness ==
    /\ rtc.sret = "nil" /\ rtc.rret = "nil"
    /\ rpc = "ok" /\ Len(sfile.data) > ChunkSize
    /\ disk.data = sfile.data

(***************************************************************************)
(* The claims about the key store.                                         *)
(***************************************************************************)
\* Only task 1 has called into the package: its calls follow one another
Sequential ==
    /\ \A t \in Tasks \ {1} : keystore.task[t].pc = "idle"
    /\ \A i \in 1..Len(keystore.log) : keystore.log[i].task = 1

BothExist(files) == files[1] # Absent /\ files[2] # Absent
NeitherExists(files) == files[1] = Absent /\ files[2] = Absent

\* C22: a GenerateRSAKeyPair call returns nil and changes nothing when both
\* key files exist; when neither exists and it returns nil, both files
\* hold the halves of one new keypair; when exactly one of private.pem and
\* public.pem exists it fails (KeypairInconsistent) and changes nothing.
C22_KeyStoreCases ==
    Sequential =>
       \A i \in 1..Len(keystore.log) :
          LET e == keystore.log[i]
          IN  e.op = "GenerateRSAKeyPair" =>
                 /\ BothExist(e.before) =>
                       /\ e.after = e.before
                       /\ e.ret \in {"nil", "failed to stat private key file"}
                 /\ (NeitherExists(e.before) /\ e.ret = "nil") =>
                       e.after[1] = e.after[2] /\ e.after[1] >= 1
                 /\ (~BothExist(e.before) /\ ~NeitherExists(e.before)) =>
                       e.ret # "nil" /\ e.after = e.before

\* C23: two GenerateRSAKeyPair calls in sequence, the first from a directory
\* with no key files and returning nil: the first leaves one keypair in the
\* two files, the second changes neither file, and one keypair has been
\* generated in all.
C23_Idempotent ==
    (/\ Sequential
     /\ Len(keystore.log) >= 2
     /\ keystore.log[1].op = "GenerateRSAKeyPair"
     /\ keystore.log[2].op = "GenerateRSAKeyPair"
     /\ NeitherExists(keystore.log[1].before)
     /\ keystore.log[1].ret = "nil")
    => /\ keystore.log[1].after[1] = keystore.log[1].after[2]
       /\ keystore.log[1].after[1] >= 1
       /\ keystore.log[2].before = keystore.log[1].after
       /\ keystore.log[2].after = keystore.log[1].after
       /\ keystore.log[2].gen = 1

\* Both calls have returned nil, the second on the files of the first
C23_Witness ==
    /\ Sequential
    /\ Len(keystore.log) = 2
    /\ keystore.log[1].op = "GenerateRSAKeyPair"
    /\ keystore.log[2].op = "GenerateRSAKeyPair"
    /\ NeitherExists(keystore.log[1].before)
    /\ keystore.log[1].ret = "nil" /\ keystore.log[2].ret = "nil"
    /\ keystore.priv = 1 /\ keystore.pub = 1

\* C24: in every state the calls of the tasks reach, in any interleaving
\* and with any failure on the way, when private.pem and public.pem both
\* exist they hold the two halves of one keypair.
C24_KeypairConsistent ==
    BothExist(<< keystore.priv, keystore.pub >>) =>
        keystore.priv = keystore.pub /\ keystore.priv >= 1

\* Two finished generations have left the halves of two different keypairs
C24_RaceLeftMismatch ==
    /\ keystore.priv >= 1 /\ keystore.pub >= 1 /\ keystore.priv # keystore.pub
    /\ \A t \in Tasks : keystore.task[t].pc = "idle"

(***************************************************************************)
(* The claims about cancellation and retry.                                *)
(***************************************************************************)
\* C25: when the orchestrator's cancellation fires while ReceiveFile is in
\* or between chunk reads, ReceiveFile has returned an error and the
\* partial output file is gone by the time the node has shut down.
C25_CancelCleansUp ==
    rpc = "killed in loop" => rerr # "none" /\ disk = NoFile

\* C26: RetryWithBackoff(ctx, 3, 1s, fn) calls fn at most 3 times (maxRetries
\* in general); only the last call made can have returned nil, and then
\* nil is returned at once; the k-th wait lasts initialBackoff * 2^(k-1),
\* so 1s then 2s, a wait follows a failed attempt only, and none follows
\* the last attempt; after maxRetries failures the error returned wraps the
\* last attempt's error.
C26_RetryPolicy ==
    LET n == Len(retry.calls)
    IN  /\ n <= retry.maxRetries
        /\ \A k \in 1..n : retry.calls[k] = "nil" =>
              /\ k = n
              /\ retry.pc = "done"
              /\ retry.ret.kind = "nil"
        /\ Len(retry.waits) <= n
        /\ Len(retry.waits) <= retry.maxRetries - 1
        /\ \A k \in 1..Len(retry.waits) :
              /\ retry.waits[k] = retry.initialBackoff * (2 ^ (k - 1))
              /\ retry.calls[k] # "nil"
        /\ (retry.maxRetries = 3 /\ retry.initialBackoff = 1) =>
              retry.waits \in {<< >>, << 1 >>, << 1, 2 >>}
        /\ (retry.pc = "done" /\ n = retry.maxRetries /\ retry.calls[n] # "nil") =>
              /\ retry.ret.kind = "after attempts"
              /\ retry.ret.n = retry.maxRetries
              /\ retry.ret.wraps = retry.calls[n]
              /\ Len(retry.waits) = n - 1
        /\ retry.ret.kind = "nil" => n >= 1 /\ retry.calls[n] = "nil"

\* Three failed dials, a second between the first two and two seconds
\* between the last two, and the error of the third comes back
C26_Witness ==
    /\ retry.maxRetries = 3 /\ retry.initialBackoff = 1
    /\ retry.calls = << "dial refused", "dial timeout", "no route" >>
    /\ retry.waits = << 1, 2 >>
    /\ retry.pc = "done"
    /\ retry.ret = [kind |-> "after attempts", n |-> 3, wraps |-> "no route"]

(***************************************************************************)
(* More claims about one transfer.                                         *)
(***************************************************************************)
\* The four handshake frames SendFile writes
HandshakeFrames ==
    WireFrame(SerializeManifest(CreateManifest(sfile)))
    \o WireFrame(MarshalPKCS1PublicKey(SenderKey))
    \o WireFrame(EncryptOAEP(rcvPub, tape.key))
    \o WireFrame(tape.nonce)

\* C27: SendFile of a 0-byte file that returns nil has written the four
\* handshake frames and then the 4-byte zero terminator, with no chunk in
\* between; ReceiveFile on these bytes, the receiver's key being the one
\* wrapped for and no local failure occurring, returns nil after reading
\* no chunk and leaves an output file of 0 bytes.
C27_EmptyFile ==
    (sfile.data = << >> /\ spc = "done") =>
        /\ emitted = << >>
        /\ wire = HandshakeFrames \o << 0, 0, 0, 0 >>
        /\ (tamper.kind = "none" /\ rcvPub = ReceiverKey /\ Terminated /\ ~fault) =>
              /\ rpc = "ok" /\ rerr = "none"
              /\ disk.exists /\ disk.data = << >>
              /\ disk.path = OutputPath(sfile.name)
              /\ verified = << >> /\ lastLen = 0
              /\ rpos = Len(wire)

\* An empty file has been sent and received
C27_Witness ==
    /\ sfile.data = << >> /\ spc = "done" /\ tamper.kind = "none"
    /\ rpc = "ok" /\ disk.exists /\ disk.data = << >>

\* C28: every chunk SendFile emits carries at least 1 and at most ChunkSize
\* (65 508) plaintext bytes; its length field on the wire is the length of
\* its ciphertext, the plaintext's plus the 16-byte tag, so at least 1 and
\* at most the receiver's buffer (65 536); and a file of exactly ChunkSize
\* bytes is sent as one chunk followed by the terminator.
C28_ChunkSizing ==
    /\ \A k \in 1..Len(emitted) :
          LET e == emitted[k]
              field == SubSeq(wire, e.off - 3, e.off)
              n == ((field[1] * 256 + field[2]) * 256 + field[3]) * 256 + field[4]
          IN  /\ Len(e.pt) >= 1 /\ Len(e.pt) <= ChunkSize
              /\ n = Len(e.ct)
              /\ n = Len(e.pt) + TagSize
              /\ n >= 1 /\ n <= BufferSize
              /\ e.off + n <= Len(wire)
    /\ (Len(sfile.data) = ChunkSize /\ spc \in {"eof", "done"}) =>
          /\ Len(emitted) = 1
          /\ emitted[1].pt = sfile.data
    /\ (Len(sfile.data) = ChunkSize /\ spc = "done") =>
          /\ emitted[1].off + Len(emitted[1].ct) + 4 = Len(wire)
          /\ SubSeq(wire, Len(wire) - 3, Len(wire)) = << 0, 0, 0, 0 >>

\* A file of exactly one chunk's size has been sent
C28_Witness ==
    /\ Len(sfile.data) = ChunkSize /\ spc = "done"
    /\ Len(emitted) = 1 /\ Len(emitted[1].pt) = ChunkSize

(***************************************************************************)
(* The claims about the framing.                                           *)
(***************************************************************************)
\* The length n as 4 bytes, most significant first (n < 2^24)
BigEndian4(n) == << 0, (n \div 65536) % 256, (n \div 256) % 256, n % 256 >>

\* C29: SendWithLength appends to the stream the 4-byte big-endian length of
\* the body and then exactly the body; ReadWithLength on what was written
\* returns the body and has consumed 4 + len(body) bytes; and when the
\* source ends during the length or the body, ReadWithLength returns an
\* error.
C29_FramingRoundTrip ==
    LET n == Len(framing.body)
    IN  /\ framing.pc # "send" =>
              framing.out = framing.pre \o BigEndian4(n) \o framing.body
        /\ (framing.pc = "read" /\ framing.arrived = framing.out) =>
              /\ framing.res.ok
              /\ framing.res.data = framing.body
              /\ framing.res.pos = Len(framing.pre) + 4 + n
        /\ (framing.pc = "read" /\ Len(framing.arrived) < Len(framing.out)) =>
              ~framing.res.ok

\* A body of 258 bytes, framed after an earlier frame, has been read back
C29_Witness ==
    /\ framing.pc = "read" /\ Len(framing.body) = 258 /\ framing.pre # << >>
    /\ framing.res.ok /\ framing.res.data = framing.body

(***************************************************************************)
(* The claims about what the wire gives away.                              *)
(***************************************************************************)
\* Everything SendFile may write, in order
FullWire ==
    HandshakeFrames
    \o WireChunks(sfile.data, tape.key, tape.nonce, 0)
    \o << 0, 0, 0, 0 >>

IsPrefix(a, b) == Len(a) <= Len(b) /\ a = SubSeq(b, 1, Len(a))

\* pat stands somewhere in s
Occurs(pat, s) ==
    \E i \in 0..(Len(s) - Len(pat)) : SubSeq(s, i + 1, i + Len(pat)) = pat

\* C30: at every point of every run of SendFile, what has been written is
\* a beginning of: manifest, sender public key, the session key wrapped for
\* the receiver's public key, base nonce, the AEAD ciphertext of each chunk,
\* terminator.  The raw session key and the sender's private key stand
\* nowhere on the wire, the wrapped key is not the key, and each chunk on
\* the wire is the sealed chunk, whose body is not the plaintext.
C30_WireConfidential ==
    /\ IsPrefix(wire, FullWire)
    /\ ~Occurs(tape.key, wire)
    /\ ~Occurs(MarshalPKCS1PrivateKey(SenderKey), wire)
    /\ spc \in {"nonce", "loop", "eof", "done"} =>
          LET at == Len(WireFrame(SerializeManifest(CreateManifest(sfile))))
                    + Len(WireFrame(MarshalPKCS1PublicKey(SenderKey)))
              wrapped == SubSeq(wire, at + 5, at + 5 + SessionKeyLen)
          IN  /\ SubSeq(wire, at + 1, at + 4) = << 0, 0, 0, SessionKeyLen + 1 >>
              /\ wrapped # << rcvPub >> \o tape.key
              /\ SubSeq(wrapped, 2, Len(wrapped)) # tape.key
              /\ wrapped[1] = rcvPub
    /\ \A k \in 1..Len(emitted) :
          LET e == emitted[k]
          IN  /\ SubSeq(wire, e.off + 1, e.off + Len(e.ct)) = e.ct
              /\ Len(e.ct) = Len(e.pt) + TagSize
              /\ TagVerifies(tape.key, e.nonce, e.ct)
              /\ SubSeq(e.ct, 1, Len(e.pt)) # e.pt
              /\ \A i \in 1..Len(e.pt) : e.ct[i] # e.pt[i]

\* A file of several chunks went over the wire and came out whole at the
\* receiver, who holds the key it was wrapped for
C30_Witness ==
    /\ spc = "done" /\ Len(emitted) >= 2 /\ rcvPub = ReceiverKey
    /\ tamper.kind = "none" /\ rpc = "ok" /\ disk.data = sfile.data


(* C31: progress non-interference. One turn of ReceiveFile's loop after the
   chunk was decrypted ends in one of the two ways a loop without progress
   reporting ends: file.Write failed, nothing was written and the error is
   returned; or the plaintext is appended to the file, the counter moves on
   and the loop reads the next length. Whether the 100 ms sample fires has
   no part in it. *)
C31_ProgressNonInterference ==
    [][rpc = "write" =>
          \/ /\ rpc' = "err" /\ rerr' = "failed to write to file"
             /\ disk' = disk /\ rcounter' = rcounter
          \/ /\ rpc' = "chunklen" /\ rerr' = rerr
             /\ disk' = [disk EXCEPT !.data = @ \o rplain]
             /\ rcounter' = NextCounter(rcounter)]_vars

(* C32: orchestrator exit. Once the TCP server or the service announcement
   has failed with an error, the process ends with exit code 1; once the
   context is cancelled by SIGINT or SIGTERM, the process ends with exit
   code 0, unless a fatal error that ends it with code 1 came first. *)
C32_OrchestratorExit ==
    /\ \A s \in Services : (orch.service[s] = "failed") ~> (orch.exit = 1)
    /\ orch.ctxDone ~> (\/ orch.exit = 0
                        \/ orch.exit = 1 /\ (orch.failed \/ orch.file = "missing"))

(* C33: listener liveness. Whatever happened so far, Accept errors, refused
   peers, handlers that have ended or are still under way, the accept loop
   is running and takes the next connection, and every handler that has a
   step to take can take it on its own, without waiting for another
   connection or for the loop. *)
C33_ListenerKeepsAccepting ==
    /\ ln.pc = "listening"
    /\ Len(conns) < MaxConns => ENABLED Accept
    /\ \A c \in 1..MaxConns :
          (c \in ConnIds /\ conns[c].pc \in {"challenge", "compare", "admitted", "refused"})
             => ENABLED handleConnection(c)

\* The loop met an Accept error, the first peer was refused and its handler
\* has ended, and the connection accepted after that was served and admitted
C33_Witness ==
    /\ ln.acceptErrors > 0
    /\ Len(conns) = 2
    /\ conns[1].pc = "closed" /\ Occurs(Fail, conns[1].out)
    /\ conns[2].ended = 1 /\ conns[2].pc = "admitted"

(* C34: the terminator comes last and only on success. When SendFile
   returns nil it has written every chunk of the file and then the 4-byte
   zero terminator; when it returns an error, what it has written is a
   beginning of the stream that stops before the terminator; and a
   receiver that is handed the bytes of a failed send as they are never
   returns nil. *)
C34_TerminatorOnlyOnSuccess ==
    /\ spc = "done" =>
          /\ soff = Len(sfile.data)
          /\ wire = FullWire
    /\ spc = "err" =>
          /\ IsPrefix(wire, SubSeq(FullWire, 1, Len(FullWire) - 4))
          /\ wire # FullWire
    /\ (rpc = "ok" /\ tamper.kind = "none") => spc = "done"

\* A send that failed after its first chunk was written; the receiver got
\* these bytes untouched and returned an error
C34_Witness ==
    /\ spc = "err" /\ emitted # << >>
    /\ tamper.kind = "none" /\ rstream = wire
    /\ rpc = "err" /\ Len(disk.data) > 0

(* C35: declared size. When ReceiveFile returns nil, the number of
   plaintext bytes it wrote to the output file is the file_size of the
   manifest it received. *)
C35_DeclaredSize ==
    rpc = "ok" => (disk.exists /\ Len(disk.data) = rmanifest.FileSize)

(* C36: a stream that ends inside a chunk body. When ReceiveFile has read
   a non-zero chunk length and the stream holds fewer bytes than that, the
   step removes the output file and returns: the read error when the
   removal succeeded, and then the file is gone; the removal's error when
   it failed, and then the file is still there. It never goes on and never
   returns nil. *)
C36_TruncatedChunkBody ==
    [][(rpc = "body" /\ lastLen > 0 /\ rpos + lastLen > Len(rstream)) =>
          /\ rpc' = "err"
          /\ \/ rerr' = "deleting file, failed to read chunk" /\ disk' = NoFile
             \/ rerr' = "deleting file failed" /\ disk' = disk /\ disk.exists]_vars

(* C37: WebRTC completion. StartWebRTCSender returns nil only when
   SendFile returned nil on the data channel, StartWebRTCReceiver only when
   ReceiveFile did; what either returns is the one value its goroutine sent
   on done or the deadline error. A goroutine that has finished has sent
   exactly one value on done, one that has not has sent none, and no
   goroutine is ever blocked in its send, the caller having returned on the
   deadline before it or not. *)
C37_WebRTCCompletion ==
    /\ rtc.sret = "nil" => (spc = "done" /\ rtc.sdone = "nil")
    /\ rtc.rret = "nil" => (rpc = "ok" /\ rtc.rdone = "nil")
    /\ rtc.sret # NotYet => rtc.sret \in {rtc.sdone, DeadlineExceeded}
    /\ rtc.rret # NotYet => rtc.rret \in {rtc.rdone, DeadlineExceeded}
    /\ rtc.sdone \notin {NotYet, "nil"} /\ rtc.tx = "done" => spc # "done"
    /\ rtc.tx # "blocked" /\ rtc.rx # "blocked"
    /\ rtc.ssends = (IF rtc.tx = "done" THEN 1 ELSE 0)
    /\ rtc.rsends = (IF rtc.rx = "done" THEN 1 ELSE 0)

\* Both callers returned on the deadline; after that the sender's goroutine
\* sent SendFile's error and the receiver's goroutine sent ReceiveFile's
C37_Witness ==
    /\ rtc.sret = DeadlineExceeded /\ rtc.slate /\ rtc.tx = "done"
    /\ rtc.sdone = "send failed"
    /\ rtc.rret = DeadlineExceeded /\ rtc.rlate /\ rtc.rx = "done"
    /\ rpc = "err"

(* C38: RetryWithBackoff honours cancellation. From a wait between two
   attempts during which the context is done, the next step returns the
   context's error and fn is not called again; an attempt that is due is
   made whether the context is done or not, and no call returns before fn
   was called once. *)
C38_HonoursCancellation ==
    [][/\ (retry.pc = "wait" /\ retry.ctxDone) =>
             /\ retry'.pc = "done"
             /\ retry'.ret.kind = "context canceled"
             /\ retry'.calls = retry.calls
       /\ (retry.pc = "call" /\ retry'.pc # "call") =>
             Len(retry'.calls) = Len(retry.calls) + 1
       /\ retry'.pc = "done" => Len(retry'.calls) >= 1]_vars

\* private.pem or public.pem is there
SomeKeyFile(files) == files[1] # Absent \/ files[2] # Absent

\* The errors of os.Stat itself
StatErrors == {"failed to stat private key file", "failed to stat public key file"}

(* C39: GenerateRSAKeyPair never overwrites key material. A call made when
   private.pem or public.pem exists goes no further than its two os.Stat
   checks, whatever other tasks do meanwhile: it is never at the key
   generation or at one of the writes. It returns nil, or the error of an
   os.Stat that failed, and never an error of generating, creating or
   encoding; and when no other task is at the files, both files are after
   the call what they were before it. *)
C39_NeverOverwrites ==
    /\ \A t \in Tasks :
          LET k == keystore.task[t]
          IN  (k.op = "GenerateRSAKeyPair" /\ SomeKeyFile(k.before)) =>
                 k.pc \in {"statpriv", "statpub"}
    /\ \A i \in 1..Len(keystore.log) :
          LET e == keystore.log[i]
          IN  (e.op = "GenerateRSAKeyPair" /\ SomeKeyFile(e.before)) =>
                 /\ e.ret \in {"nil"} \cup StatErrors
                 /\ (e.before[1] # Absent /\ e.ret # "failed to stat private key file")
                       => e.ret = "nil"
                 /\ Sequential => e.after = e.before

\* A call on a directory that held public.pem alone has passed the check
\* for private.pem, returned nil and left the directory as it was
C39_Witness ==
    /\ Sequential
    /\ \E i \in 1..Len(keystore.log) :
          /\ keystore.log[i].op = "GenerateRSAKeyPair"
          /\ keystore.log[i].before = << Absent, 1 >>
          /\ keystore.log[i].after = << Absent, 1 >>
          /\ keystore.log[i].ret = "nil"

====
